---- MODULE Spec2Model ----
(***************************************************************************)
(* Model of the VLAMy OCR application (ocr_app): the Transcription ledger  *)
(* (models.py, views.py) and the PageXML export / import codec             *)
(* (services.py).                                                          *)
(*                                                                         *)
(* Python strings are modelled as sequences of one-character strings, so   *)
(* that escaping, splitting and stripping are computed character by        *)
(* character.                                                              *)
(***************************************************************************)
EXTENDS Integers, Sequences, FiniteSets, TLC

(***************************************************************************)
(* Bounds                                                                   *)
(***************************************************************************)
\* number of Transcription rows ever inserted (primary keys are never reused)
MaxRecords == 3
\* number of Annotation rows (annotation 1 exists from the start, the others
\* are created by an import)
MaxAnnotations == 2

\* request workers of the service host that run handlers concurrently
Procs == {1, 2}

\* the single image of the model; every annotation belongs to it
TheImage == 1

\* a null foreign key / an absent row
NoId == 0

TranscriptionIds == 1..MaxRecords
AnnotationIds == 1..MaxAnnotations

(***************************************************************************)
(* Values of Transcription fields                                          *)
(***************************************************************************)
\* Python None in a text field (a JSON null returned by a backend)
PyNone == <<"None">>

\* text a backend can return / a record can hold
Texts == {<<>>, <<"a">>}

\* str(e) of the exceptions the handlers catch
ErrorMessages == {<<"e">>}

\* models.py Transcription.TRANSCRIPTION_STATUS
TRANSCRIPTION_STATUS == {"pending", "processing", "completed", "failed"}

\* the row that is not there
NoRow == [id |-> NoId, image |-> NoId, annotation |-> NoId,
          transcription_type |-> "none", status |-> "none",
          text_content |-> <<>>, error_message |-> <<>>,
          version |-> 0, is_current |-> FALSE, parent_transcription |-> NoId]

\* Transcription(...) with the field defaults of models.py:
\* status 'pending', text_content '', error_message '', version 1,
\* is_current True, parent_transcription None; the primary key is assigned
\* when the row is inserted
NewTranscription(image, annotation, ttype, st, text, parent) ==
    [id |-> NoId, image |-> image, annotation |-> annotation,
     transcription_type |-> ttype, status |-> st,
     text_content |-> text, error_message |-> <<>>,
     version |-> 1, is_current |-> TRUE, parent_transcription |-> parent]

VARIABLES
    db,          \* the Transcription table: id -> row (NoRow when absent)
    nextId,      \* number of primary keys handed out so far
    annotations, \* the Annotation table: set of annotation ids
    pc,          \* position of each worker in its handler
    handler,     \* the handler each worker runs
    inst,        \* the in-memory model instance each worker holds
    cleared      \* whether the worker's last clearing UPDATE changed a row

ledgerVars == <<db, nextId, annotations, pc, handler, inst, cleared>>

VARIABLES
    stage,       \* bundle round trip: "source", "exported", "imported"
    image,       \* the image that is exported, with its annotations
    pagexml,     \* the PageXML file the export wrote under page/
    imported     \* the annotations the import created on the new image

codecVars == <<stage, image, pagexml, imported>>

VARIABLES
    tree,        \* the project that is exported: its Document, Image and
                 \* Annotation rows, each table in creation order
    now,         \* the clock that stamps updated_at
    artifact,    \* the file the last export wrote
    reimported   \* what the import of that file created

treeVars == <<tree, now, artifact, reimported>>

VARIABLES
    call,        \* a call of a service function: its arguments and result
    tmpfiles     \* the temporary files that exist under /tmp

callVars == <<call, tmpfiles>>

vars == <<ledgerVars, codecVars, treeVars, callVars>>

(***************************************************************************)
(* Queries                                                                  *)
(***************************************************************************)
Rows == {i \in TranscriptionIds : db[i] # NoRow}

\* the target of a record: (image, annotation-or-null)
Target(r) == <<r.image, r.annotation>>

Targets == {<<TheImage, NoId>>} \cup {<<TheImage, a>> : a \in AnnotationIds}

RowsOf(d, t) == {i \in TranscriptionIds : d[i] # NoRow /\ Target(d[i]) = t}

CurrentOf(d, t) == {i \in RowsOf(d, t) : d[i].is_current}

\* the clearing UPDATE with its annotation branch lost: only full-image
\* transcriptions are un-currented
SaveFilterImageOnly(d, self) ==
    IF ~self.is_current \/ self.annotation # NoId THEN {}
    ELSE {i \in TranscriptionIds : /\ d[i] # NoRow
                                    /\ d[i].image = self.image
                                    /\ d[i].annotation = NoId
                                    /\ d[i].is_current
                                    /\ i # self.id}

\* Transcription.save, first half: the UPDATE that un-currents the others.
\*   if self.annotation: filter(annotation=self.annotation, is_current=True)
\*   else: filter(image=self.image, annotation__isnull=True, is_current=True)
\*   .exclude(id=self.id).update(is_current=False)
SaveFilter(d, self) ==
    IF ~self.is_current THEN {}
    ELSE IF self.annotation # NoId
         THEN {i \in TranscriptionIds : /\ d[i] # NoRow
                                         /\ d[i].annotation = self.annotation
                                         /\ d[i].is_current
                                         /\ i # self.id}
         ELSE {i \in TranscriptionIds : /\ d[i] # NoRow
                                         /\ d[i].image = self.image
                                         /\ d[i].annotation = NoId
                                         /\ d[i].is_current
                                         /\ i # self.id}

ClearOthers(d, self) ==
    [i \in TranscriptionIds |->
        IF i \in SaveFilter(d, self) THEN [d[i] EXCEPT !.is_current = FALSE]
        ELSE d[i]]

\* what the database accepts in super().save(): text_content is NOT NULL
\* (TextField without null=True) and a foreign key must name a row
Storable(d, self) ==
    /\ self.text_content # PyNone
    /\ self.parent_transcription # NoId => d[self.parent_transcription] # NoRow
    /\ self.annotation # NoId => self.annotation \in annotations

\* queryset.first() under Meta.ordering = ['-version', '-created_at']: the
\* row with the largest version, the most recently created among equals
\* (primary keys are handed out in creation order)
First(d, ids) ==
    IF ids = {} THEN NoId
    ELSE CHOOSE i \in ids : \A j \in ids :
            \/ d[i].version > d[j].version
            \/ d[i].version = d[j].version /\ i >= j

\* a delete that takes only the rows reverted from `ids` themselves
CascadeChildrenOnly(d, ids) ==
    ids \cup {i \in TranscriptionIds : /\ d[i] # NoRow
                                       /\ d[i].parent_transcription \in ids}

\* rows whose parent_transcription chain reaches one of `ids`
\* (on_delete=models.CASCADE on the self-reference)
RECURSIVE Cascade(_, _)
Cascade(d, ids) ==
    LET more == {i \in TranscriptionIds : /\ d[i] # NoRow
                                           /\ d[i].parent_transcription \in ids}
    IN IF more \subseteq ids THEN ids ELSE Cascade(d, ids \cup more)

(***************************************************************************)
(* Initial state: one image with one annotation and no transcription       *)
(***************************************************************************)
LedgerInit ==
    /\ db = [i \in TranscriptionIds |-> NoRow]
    /\ nextId = 0
    /\ annotations = {1}
    /\ pc = [p \in Procs |-> "idle"]
    /\ handler = [p \in Procs |-> "none"]
    /\ inst = [p \in Procs |-> NoRow]
    /\ cleared = [p \in Procs |-> FALSE]

\* primary keys still to be taken by workers that are about to insert
Pending == Cardinality({p \in Procs : pc[p] \in {"create_clear", "create_insert"}})

CanCreate == nextId + Pending < MaxRecords

\* Transcription.objects.create(...) entered: the instance is built and
\* save() is about to run
BeginCreate(p, h, row) ==
    /\ pc[p] = "idle"
    /\ CanCreate
    /\ pc' = [pc EXCEPT ![p] = "create_clear"]
    /\ handler' = [handler EXCEPT ![p] = h]
    /\ inst' = [inst EXCEPT ![p] = row]
    /\ UNCHANGED <<db, nextId, annotations, cleared, codecVars, treeVars, callVars>>

\* TranscribeImageView.post up to the create call
TranscribeImagePost(p) ==
    BeginCreate(p, "transcribe_image",
        NewTranscription(TheImage, NoId, "full_image", "processing", <<>>, NoId))

\* TranscribeAnnotationView.post up to the create call
TranscribeAnnotationPost(p, a) ==
    /\ a \in annotations
    /\ BeginCreate(p, "transcribe_annotation",
        NewTranscription(TheImage, a, "annotation", "processing", <<>>, NoId))

\* a revert that copies the row without naming it as parent
RevertPostNoParent(p, i) ==
    /\ db[i] # NoRow
    /\ BeginCreate(p, "revert",
        NewTranscription(db[i].image, db[i].annotation,
                         db[i].transcription_type, "completed",
                         db[i].text_content, NoId))

\* RevertTranscriptionView.post: Transcription.objects.get(pk=pk), then the
\* create call with the fields of the row read
RevertPost(p, i) ==
    /\ db[i] # NoRow
    /\ BeginCreate(p, "revert",
        NewTranscription(db[i].image, db[i].annotation,
                         db[i].transcription_type, "completed",
                         db[i].text_content, i))

\* ImportService: an annotation is created, then its transcription (status
\* keeps the field default, the text is non-empty)
ImportAnnotation(p, text) ==
    /\ pc[p] = "idle"
    /\ CanCreate
    /\ text # <<>>
    /\ Cardinality(annotations) < MaxAnnotations
    /\ LET a == Cardinality(annotations) + 1 IN
        /\ annotations' = annotations \cup {a}
        /\ inst' = [inst EXCEPT ![p] =
              NewTranscription(TheImage, a, "annotation", "pending", text, NoId)]
    /\ pc' = [pc EXCEPT ![p] = "create_clear"]
    /\ handler' = [handler EXCEPT ![p] = "import"]
    /\ UNCHANGED <<db, nextId, cleared, codecVars, treeVars, callVars>>

\* Transcription.save, first statement: the clearing UPDATE
SaveClear(p) ==
    /\ pc[p] \in {"create_clear", "done_clear", "fail_clear"}
    /\ db' = ClearOthers(db, inst[p])
    /\ cleared' = [cleared EXCEPT ![p] = SaveFilter(db, inst[p]) # {}]
    /\ pc' = [pc EXCEPT ![p] = CASE pc[p] = "create_clear" -> "create_insert"
                                 [] pc[p] = "done_clear" -> "done_write"
                                 [] pc[p] = "fail_clear" -> "fail_write"]
    /\ UNCHANGED <<nextId, annotations, handler, inst, codecVars, treeVars, callVars>>

\* the worker's handler has returned
Return(p) ==
    /\ pc' = [pc EXCEPT ![p] = "idle"]
    /\ handler' = [handler EXCEPT ![p] = "none"]
    /\ inst' = [inst EXCEPT ![p] = NoRow]
    /\ cleared' = [cleared EXCEPT ![p] = FALSE]

\* Transcription.save, second statement, for a new instance: super().save()
\* inserts the row. The transcribe handlers go on to the OCR call, revert
\* and import return. A rejected insert raises out of the handler.
CreateInsert(p) ==
    /\ pc[p] = "create_insert"
    /\ UNCHANGED <<annotations, codecVars, treeVars, callVars>>
    /\ IF Storable(db, inst[p])
       THEN LET row == [inst[p] EXCEPT !.id = nextId + 1] IN
            /\ db' = [db EXCEPT ![nextId + 1] = row]
            /\ nextId' = nextId + 1
            /\ IF handler[p] \in {"transcribe_image", "transcribe_annotation"}
               THEN /\ pc' = [pc EXCEPT ![p] = "ocr"]
                    /\ inst' = [inst EXCEPT ![p] = row]
                    /\ UNCHANGED <<handler, cleared>>
               ELSE Return(p)
       ELSE /\ UNCHANGED <<db, nextId>>
            /\ Return(p)

\* an except branch that also takes the failed record out of currency
ExceptNotCurrent(p, msg) ==
    /\ inst' = [inst EXCEPT ![p] = [inst[p] EXCEPT !.status = "failed",
                                                   !.error_message = msg,
                                                   !.is_current = FALSE]]
    /\ pc' = [pc EXCEPT ![p] = "fail_clear"]
    /\ UNCHANGED <<handler, cleared>>

\* the except branch of the transcribe handlers:
\*   transcription.status = 'failed'; transcription.error_message = str(e)
\* with transcription.save() still to run
Except(p, msg) ==
    /\ inst' = [inst EXCEPT ![p] = [inst[p] EXCEPT !.status = "failed",
                                                   !.error_message = msg]]
    /\ pc' = [pc EXCEPT ![p] = "fail_clear"]
    /\ UNCHANGED <<handler, cleared>>

\* OCRService.transcribe_image / transcribe_annotation raises: a non-200
\* response, a timeout, missing credentials, a failed region extraction
OcrRaises(p, msg) ==
    /\ pc[p] = "ocr"
    /\ Except(p, msg)
    /\ UNCHANGED <<db, nextId, annotations, codecVars, treeVars, callVars>>

\* the OCR call returns a result; result.get('text', '') is a string, or None
\* when the backend's JSON holds a null there
OcrReturns(p, text) ==
    /\ pc[p] = "ocr"
    /\ inst' = [inst EXCEPT ![p] = [inst[p] EXCEPT !.status = "completed",
                                                   !.text_content = text]]
    /\ pc' = [pc EXCEPT ![p] = "done_clear"]
    /\ UNCHANGED <<db, nextId, annotations, handler, cleared, codecVars, treeVars, callVars>>

\* Transcription.save, second statement, for a row that was inserted before:
\* super().save() writes every field of the instance (and inserts the row
\* again when it is gone). A rejected write raises: inside try it is caught by
\* the except branch, inside the except branch it leaves the handler.
SaveWrite(p) ==
    /\ pc[p] \in {"done_write", "fail_write"}
    /\ UNCHANGED <<nextId, annotations, codecVars, treeVars, callVars>>
    /\ IF Storable(db, inst[p])
       THEN /\ db' = [db EXCEPT ![inst[p].id] = inst[p]]
            /\ IF pc[p] = "done_write" /\ handler[p] = "transcribe_annotation"
               THEN /\ pc' = [pc EXCEPT ![p] = "merge"]
                    /\ UNCHANGED <<handler, inst, cleared>>
               ELSE Return(p)
       ELSE /\ UNCHANGED db
            /\ IF pc[p] = "done_write"
               THEN \E msg \in ErrorMessages : Except(p, msg)
               ELSE Return(p)

\* TranscribeAnnotationView.post after the completed save: the result's
\* metadata is merged into the annotation and the handler returns
MetadataMerge(p) ==
    /\ pc[p] = "merge"
    /\ Return(p)
    /\ UNCHANGED <<db, nextId, annotations, codecVars, treeVars, callVars>>

\* {**annotation.metadata, **result['metadata']} raises (the metadata of the
\* result is not a mapping): still inside try
MetadataMergeRaises(p, msg) ==
    /\ pc[p] = "merge"
    /\ Except(p, msg)
    /\ UNCHANGED <<db, nextId, annotations, codecVars, treeVars, callVars>>

\* TranscriptionViewSet destroy: the row and, by CASCADE, every row reverted
\* from it are deleted in one transaction
Destroy(i) ==
    /\ db[i] # NoRow
    /\ db' = [j \in TranscriptionIds |->
                IF j \in Cascade(db, {i}) THEN NoRow ELSE db[j]]
    /\ UNCHANGED <<nextId, annotations, pc, handler, inst, cleared, codecVars, treeVars, callVars>>

\* a create is between its clearing UPDATE, which changed a row, and its
\* INSERT on target t
InCreateWindow(t) ==
    \E p \in Procs : /\ pc[p] = "create_insert"
                     /\ Target(inst[p]) = t
                     /\ cleared[p]

\* get_current(target): transcriptions.filter(is_current=True, ...).first(),
\* the query of the serializers and of every export; a reader runs it in
\* whatever state the table is in
get_current(t) == First(db, CurrentOf(db, t))

\* one step of worker p
Step(p) ==
    \/ TranscribeImagePost(p)
    \/ \E a \in AnnotationIds : TranscribeAnnotationPost(p, a)
    \/ \E i \in TranscriptionIds : RevertPost(p, i)
    \/ \E text \in Texts : ImportAnnotation(p, text)
    \/ SaveClear(p)
    \/ CreateInsert(p)
    \/ \E msg \in ErrorMessages : OcrRaises(p, msg)
    \/ \E text \in Texts \cup {PyNone} : OcrReturns(p, text)
    \/ SaveWrite(p)
    \/ MetadataMerge(p)
    \/ \E msg \in ErrorMessages : MetadataMergeRaises(p, msg)

\* requests that are served in one step
Atomic == \E i \in TranscriptionIds : Destroy(i)


(***************************************************************************)
(* PageXML codec: strings                                                   *)
(*                                                                         *)
(* A string is a sequence of characters. A run of letters that no          *)
(* operation below looks into (a classification code, a key of the custom  *)
(* attribute, an entity name) is written as one element.                   *)
(***************************************************************************)
\* longest label, metadata key and metadata value of a source annotation
MaxFieldLen == 1
\* longest transcription text of a source annotation
MaxTextLen == 2
\* most entries of a source annotation's metadata
MaxMetadata == 1

\* characters of labels, metadata keys and metadata values
FieldChars == {"a", ";", ":", "&"}
\* characters of transcription text
TextChars == {"a", " ", "&"}

RECURSIVE StringsUpTo(_, _)
StringsUpTo(A, n) ==
    IF n = 0 THEN {<<>>}
    ELSE LET S == StringsUpTo(A, n - 1)
         IN S \cup {Append(x, c) : x \in S, c \in A}

\* str.replace(c, rep) for a one-character pattern
RECURSIVE Replace(_, _, _)
Replace(str, c, rep) ==
    IF str = <<>> THEN <<>>
    ELSE (IF Head(str) = c THEN rep ELSE <<Head(str)>>)
         \o Replace(Tail(str), c, rep)

\* ExportService._escape_xml
_escape_xml(text) ==
    IF text = <<>> THEN <<>>
    ELSE Replace(Replace(Replace(Replace(Replace(text,
            "&", <<"&", "amp", ";">>),
            "<", <<"&", "lt", ";">>),
            ">", <<"&", "gt", ";">>),
            "\"", <<"&", "quot", ";">>),
            "'", <<"&", "apos", ";">>)

\* the predefined entities of XML
XmlEntities == [amp |-> "&", lt |-> "<", gt |-> ">", quot |-> "\"", apos |-> "'"]

\* what the XML parser makes of the raw characters of an attribute value or of
\* character data: entity references are replaced; a '<', a '&' that starts
\* no entity reference, or a '"' inside an attribute value, make the document
\* malformed
RECURSIVE XmlDecode(_, _)
XmlDecode(raw, inAttribute) ==
    IF raw = <<>> THEN [ok |-> TRUE, str |-> <<>>]
    ELSE IF Head(raw) = "&"
    THEN IF /\ Len(raw) >= 3
            /\ raw[2] \in DOMAIN XmlEntities
            /\ raw[3] = ";"
         THEN LET rest == XmlDecode(SubSeq(raw, 4, Len(raw)), inAttribute)
              IN [ok |-> rest.ok, str |-> <<XmlEntities[raw[2]]>> \o rest.str]
         ELSE [ok |-> FALSE, str |-> <<>>]
    ELSE IF Head(raw) = "<" \/ (inAttribute /\ Head(raw) = "\"")
    THEN [ok |-> FALSE, str |-> <<>>]
    ELSE LET rest == XmlDecode(Tail(raw), inAttribute)
         IN [ok |-> rest.ok, str |-> <<Head(raw)>> \o rest.str]

Contains(str, c) == \E i \in 1..Len(str) : str[i] = c

IndexOf(str, c) ==
    CHOOSE i \in 1..Len(str) : str[i] = c /\ \A j \in 1..(i - 1) : str[j] # c

\* str.split(sep)
RECURSIVE Split(_, _)
Split(str, sep) ==
    IF ~Contains(str, sep) THEN <<str>>
    ELSE LET i == IndexOf(str, sep)
         IN <<SubSeq(str, 1, i - 1)>> \o Split(SubSeq(str, i + 1, Len(str)), sep)

\* str.split(sep, 1) of a string that contains sep
SplitOnce(str, sep) ==
    LET i == IndexOf(str, sep)
    IN <<SubSeq(str, 1, i - 1), SubSeq(str, i + 1, Len(str))>>

\* sep.join(parts)
RECURSIVE Join(_, _)
Join(parts, sep) ==
    IF parts = <<>> THEN <<>>
    ELSE IF Len(parts) = 1 THEN parts[1]
    ELSE parts[1] \o sep \o Join(Tail(parts), sep)

Whitespace == {" ", "\n", "\t", "\r"}

\* str.strip()
RECURSIVE LStrip(_)
LStrip(str) ==
    IF str # <<>> /\ Head(str) \in Whitespace THEN LStrip(Tail(str)) ELSE str

RECURSIVE RStrip(_)
RStrip(str) ==
    IF str # <<>> /\ str[Len(str)] \in Whitespace
    THEN RStrip(SubSeq(str, 1, Len(str) - 1)) ELSE str

Strip(str) == RStrip(LStrip(str))

Digits == <<"0", "1", "2", "3", "4", "5", "6", "7", "8", "9">>

\* str(n) of a non-negative integer
RECURSIVE IntToStr(_)
IntToStr(n) ==
    IF n < 10 THEN <<Digits[n + 1]>>
    ELSE IntToStr(n \div 10) \o <<Digits[(n % 10) + 1]>>

DigitValue(c) == (CHOOSE i \in 1..10 : Digits[i] = c) - 1

\* int(value): ok is FALSE where Python raises ValueError
RECURSIVE ParseDigits(_, _)
ParseDigits(str, acc) ==
    IF str = <<>> THEN acc
    ELSE ParseDigits(Tail(str), 10 * acc + DigitValue(Head(str)))

ParseInt(value) ==
    LET v == Strip(value)
    IN IF v # <<>> /\ \A i \in 1..Len(v) : \E k \in 1..10 : Digits[k] = v[i]
       THEN [ok |-> TRUE, n |-> ParseDigits(v, 0)]
       ELSE [ok |-> FALSE, n |-> 0]

(***************************************************************************)
(* PageXML codec: data                                                      *)
(***************************************************************************)
\* models.py ZONE_TYPES
ZONE_TYPES == {"CustomZone", "DamageZone", "DigitizationArtefactZone",
               "DropCapitalZone", "GraphicZone", "MainZone", "MarginTextZone",
               "MusicZone", "NumberingZone", "QuireMarksZone",
               "RunningTitleZone", "SealZone", "StampZone", "TableZone",
               "TitlePageZone"}

\* models.py LINE_TYPES
LINE_TYPES == {"CustomLine", "DefaultLine", "DropCapitalLine", "HeadingLine",
               "InterlinearLine", "MusicLine"}

\* models.py PAGEXML_MAPPINGS
PAGEXML_MAPPINGS ==
    [c \in ZONE_TYPES \cup LINE_TYPES |->
        CASE c = "CustomZone" -> "CustomRegion"
          [] c \in {"DamageZone", "DigitizationArtefactZone"} -> "NoiseRegion"
          [] c = "GraphicZone" -> "GraphicRegion"
          [] c = "MusicZone" -> "MusicRegion"
          [] c \in {"SealZone", "StampZone"} -> "ImageRegion"
          [] c = "TableZone" -> "TableRegion"
          [] c \in LINE_TYPES -> "TextLine"
          [] OTHER -> "TextRegion"]

\* PAGEXML_MAPPINGS.get(annotation.classification, 'TextRegion')
RegionType(classification) ==
    IF Len(classification) = 1 /\ classification[1] \in DOMAIN PAGEXML_MAPPINGS
    THEN PAGEXML_MAPPINGS[classification[1]]
    ELSE "TextRegion"

\* the region tags the import walks, in this order
region_types == <<"TextRegion", "GraphicRegion", "ImageRegion",
                  "LineDrawingRegion", "ChartRegion", "TableRegion",
                  "CustomRegion">>

\* Annotation.coordinates: {"x", "y", "width", "height"} of a bbox, or
\* {"points": [...]} 
BBox(x, y, w, h) ==
    [shape |-> "bbox", x |-> x, y |-> y, width |-> w, height |-> h,
     points |-> <<>>]

Points(pts) ==
    [shape |-> "points", x |-> 0, y |-> 0, width |-> 0, height |-> 0,
     points |-> pts]

\* a metadata value: a string, a number or a boolean, with its str()
StrValue(str) == [kind |-> "str", str |-> str]
IntValue(n) == [kind |-> "int", str |-> IntToStr(n)]
BoolValue(b) == [kind |-> "bool", str |-> IF b THEN <<"True">> ELSE <<"False">>]

\* no current transcription on the target
NoTranscription == [exists |-> FALSE, text_content |-> <<>>]

CurrentText(text) == [exists |-> TRUE, text_content |-> text]

\* a dict as the sequence of its items in insertion order: d[key] = value
DictPut(d, key, value) ==
    IF \E i \in 1..Len(d) : d[i].key = key
    THEN [i \in 1..Len(d) |->
            IF d[i].key = key THEN [key |-> key, value |-> value] ELSE d[i]]
    ELSE Append(d, [key |-> key, value |-> value])

\* the items of a dict; two dicts are equal when their items are
Items(d) == {d[i] : i \in 1..Len(d)}

(***************************************************************************)
(* Source images of the round trip                                          *)
(***************************************************************************)
SourceLabels == StringsUpTo(FieldChars, MaxFieldLen)

SourceValues ==
    {StrValue(v) : v \in StringsUpTo(FieldChars, MaxFieldLen)}
        \cup {IntValue(5), BoolValue(TRUE)}

RECURSIVE DictsUpTo(_)
DictsUpTo(n) ==
    IF n = 0 THEN {<<>>}
    ELSE LET D == DictsUpTo(n - 1)
         IN D \cup {DictPut(d, k, v) : d \in D,
                        k \in StringsUpTo(FieldChars, MaxFieldLen),
                        v \in SourceValues}

SourceTranscriptions ==
    {NoTranscription} \cup {CurrentText(t) : t \in StringsUpTo(TextChars, MaxTextLen)}

SourceShapes ==
    {[annotation_type |-> <<"bbox">>, coordinates |-> BBox(1, 2, 3, 4)],
     [annotation_type |-> <<"polygon">>,
      coordinates |-> Points(<<<<0, 0>>, <<4, 0>>, <<2, 3>>>>)]}

SourceReadingOrders == {0, 12}

\* an annotation with its current transcription
SourceAnnotation(sh, c, l, r, m, t) ==
    [annotation_type |-> sh.annotation_type,
     coordinates |-> sh.coordinates,
     classification |-> <<c>>,
     label |-> l,
     reading_order |-> r,
     metadata |-> m,
     transcription |-> t]

\* an image: its size, its annotations ordered by reading_order, and its
\* current full-image transcription
Image(anns, t) ==
    [width |-> 8, height |-> 6, annotations |-> anns, transcription |-> t]

NoImage == Image(<<>>, NoTranscription)

NoDocument == [regions |-> <<>>]

(***************************************************************************)
(* PageXML export: ExportService._generate_pagexml_for_image               *)
(***************************************************************************)
\* ";".join([f"{k}:{self._escape_xml(str(v))}" for k, v in metadata.items()])
MetadataStr(metadata) ==
    Join([i \in 1..Len(metadata) |->
            metadata[i].key \o <<":">> \o _escape_xml(metadata[i].value.str)],
         <<";">>)

\* the corners of a bbox clockwise from top-left, or the polygon's points
CoordsPoints(annotation) ==
    LET c == annotation.coordinates IN
    IF annotation.annotation_type = <<"bbox">>
    THEN <<<<c.x, c.y>>, <<c.x + c.width, c.y>>,
           <<c.x + c.width, c.y + c.height>>, <<c.x, c.y + c.height>>>>
    ELSE IF annotation.annotation_type = <<"polygon">>
    THEN c.points
    ELSE <<<<0, 0>>, <<100, 0>>, <<100, 100>>, <<0, 100>>>>

\* the element written for one annotation: its tag, the raw text of its
\* custom attribute and of the UserAttribute value, its Coords and the raw
\* text of TextLine/TextEquiv/Unicode
RegionElement(annotation) ==
    LET region_type == RegionType(annotation.classification)
        annotation_transcription == annotation.transcription
    IN [tag |-> region_type,
        custom |-> <<"annotation_type", ":">> \o annotation.annotation_type
                   \o <<";", "classification", ":">>
                   \o _escape_xml(annotation.classification)
                   \o <<";", "label", ":">> \o _escape_xml(annotation.label)
                   \o <<";", "reading_order", ":">>
                   \o IntToStr(annotation.reading_order),
        hasUserAttribute |-> annotation.metadata # <<>>,
        userAttribute |-> MetadataStr(annotation.metadata),
        points |-> CoordsPoints(annotation),
        hasTextLine |-> /\ region_type \in {"TextRegion", "CustomRegion"}
                        /\ annotation_transcription.exists,
        unicode |-> IF /\ region_type \in {"TextRegion", "CustomRegion"}
                       /\ annotation_transcription.exists
                    THEN _escape_xml(annotation_transcription.text_content)
                    ELSE <<>>]

\* the synthetic full-page TextRegion
FullPageRegion(img) ==
    [tag |-> "TextRegion",
     custom |-> <<>>,
     hasUserAttribute |-> FALSE,
     userAttribute |-> <<>>,
     points |-> <<<<0, 0>>, <<img.width, 0>>, <<img.width, img.height>>,
                 <<0, img.height>>>>,
     hasTextLine |-> TRUE,
     unicode |-> _escape_xml(img.transcription.text_content)]

_generate_pagexml_for_image(img) ==
    [regions |->
        [i \in 1..Len(img.annotations) |-> RegionElement(img.annotations[i])]
        \o (IF img.transcription.exists /\ img.annotations = <<>>
            THEN <<FullPageRegion(img)>> ELSE <<>>)]

(***************************************************************************)
(* PageXML import: ImportService._import_annotations_from_pagexml          *)
(***************************************************************************)
\* ET.parse accepts the file
WellFormed(doc) ==
    \A i \in 1..Len(doc.regions) :
        /\ XmlDecode(doc.regions[i].custom, TRUE).ok
        /\ XmlDecode(doc.regions[i].userAttribute, TRUE).ok
        /\ XmlDecode(doc.regions[i].unicode, FALSE).ok

\* the loop over custom_attr.split(';')
RECURSIVE ParseCustom(_, _)
ParseCustom(items, acc) ==
    IF items = <<>> THEN acc
    ELSE LET item == Head(items) IN
         IF ~Contains(item, ":") THEN ParseCustom(Tail(items), acc)
         ELSE LET key == SplitOnce(item, ":")[1]
                  value == SplitOnce(item, ":")[2]
              IN ParseCustom(Tail(items),
                   CASE key = <<"annotation_type">> ->
                            [acc EXCEPT !.annotation_type = value]
                     [] key = <<"classification">> ->
                            [acc EXCEPT !.classification = value]
                     [] key = <<"label">> ->
                            [acc EXCEPT !.label = value]
                     [] key = <<"reading_order">> ->
                            IF ParseInt(value).ok
                            THEN [acc EXCEPT !.reading_order = ParseInt(value).n]
                            ELSE acc
                     [] OTHER -> acc)

\* the loop over metadata_str.split(';')
RECURSIVE ParseMetadata(_, _)
ParseMetadata(items, metadata) ==
    IF items = <<>> THEN metadata
    ELSE LET item == Head(items) IN
         IF ~Contains(item, ":") THEN ParseMetadata(Tail(items), metadata)
         ELSE ParseMetadata(Tail(items),
                DictPut(metadata, SplitOnce(item, ":")[1],
                        StrValue(SplitOnce(item, ":")[2])))

Min(S) == CHOOSE x \in S : \A y \in S : x <= y
Max(S) == CHOOSE x \in S : \A y \in S : x >= y

\* {'points': points}, or the bbox of the points' extrema
ImportCoordinates(annotation_type, points) ==
    IF annotation_type = <<"bbox">> /\ Len(points) >= 4
    THEN LET xs == {points[i][1] : i \in 1..Len(points)}
             ys == {points[i][2] : i \in 1..Len(points)}
         IN BBox(Min(xs), Min(ys), Max(xs) - Min(xs), Max(ys) - Min(ys))
    ELSE Points(points)

\* a point_str of the Coords points attribute is the tuple of its fields
\* between commas: one without a comma is passed over, "x,y" is a point, and
\* x, y = point_str.split(',') raises ValueError on more than two fields
PointsRaise(region) ==
    \E i \in 1..Len(region.points) : Len(region.points[i]) > 2

ParsedPoints(region) ==
    SelectSeq(region.points, LAMBDA point_str : Len(point_str) = 2)

\* the annotation (and its transcription) created for one region element;
\* reading_order is the running counter of the import
ImportRegion(region, reading_order) ==
    LET custom_attr == XmlDecode(region.custom, TRUE).str
        parsed == ParseCustom(
                    IF custom_attr # <<>> THEN Split(custom_attr, ";") ELSE <<>>,
                    [annotation_type |-> <<"polygon">>,
                     classification |-> <<"text_region">>,
                     label |-> <<>>,
                     reading_order |-> reading_order])
        metadata == IF region.hasUserAttribute
                    THEN ParseMetadata(
                           Split(XmlDecode(region.userAttribute, TRUE).str, ";"),
                           <<>>)
                    ELSE <<>>
        unicode_text == XmlDecode(region.unicode, FALSE).str
        text_content == IF region.hasTextLine /\ unicode_text # <<>>
                        THEN unicode_text \o <<"\n">> ELSE <<>>
    IN [annotation_type |-> parsed.annotation_type,
        coordinates |-> ImportCoordinates(parsed.annotation_type,
                                         ParsedPoints(region)),
        classification |-> parsed.classification,
        label |-> parsed.label,
        reading_order |-> parsed.reading_order,
        metadata |-> metadata,
        transcription |-> IF Strip(text_content) # <<>>
                          THEN CurrentText(Strip(text_content))
                          ELSE NoTranscription]

\* the regions of one tag, in document order, that have at least 3 points,
\* up to the first region whose points raise
RECURSIVE ImportRegions(_, _, _)
ImportRegions(regions, region_type, reading_order) ==
    IF regions = <<>> THEN [made |-> <<>>, raised |-> FALSE]
    ELSE IF Head(regions).tag # region_type
    THEN ImportRegions(Tail(regions), region_type, reading_order)
    ELSE IF PointsRaise(Head(regions))
    THEN [made |-> <<>>, raised |-> TRUE]
    ELSE IF Len(ParsedPoints(Head(regions))) >= 3
    THEN LET rest == ImportRegions(Tail(regions), region_type,
                                   reading_order + 1)
         IN [made |-> <<ImportRegion(Head(regions), reading_order)>>
                      \o rest.made,
             raised |-> rest.raised]
    ELSE ImportRegions(Tail(regions), region_type, reading_order)

\* the loop over region_types; the except clause around both loops ends the
\* import at the first exception and keeps the rows already created
RECURSIVE ImportTypes(_, _, _)
ImportTypes(doc, t, reading_order) ==
    IF t > Len(region_types) THEN <<>>
    ELSE LET r == ImportRegions(doc.regions, region_types[t], reading_order)
         IN IF r.raised THEN r.made
            ELSE r.made \o ImportTypes(doc, t + 1, reading_order + Len(r.made))

\* the annotations the import creates; a file ET.parse rejects creates none
_import_annotations_from_pagexml(doc) ==
    IF WellFormed(doc) THEN ImportTypes(doc, 1, 1) ELSE <<>>

(***************************************************************************)
(* The bundle round trip                                                    *)
(***************************************************************************)
CodecOff ==
    /\ stage = "off"
    /\ image = NoImage
    /\ pagexml = NoDocument
    /\ imported = <<>>

CodecInit ==
    /\ stage = "source"
    /\ \/ \E t \in SourceTranscriptions : image = Image(<<>>, t)
       \/ \E sh \in SourceShapes, c \in ZONE_TYPES \cup LINE_TYPES,
             l \in SourceLabels, r \in SourceReadingOrders,
             m \in DictsUpTo(MaxMetadata), t \in SourceTranscriptions :
               image = Image(<<SourceAnnotation(sh, c, l, r, m, t)>>,
                             NoTranscription)
    /\ pagexml = NoDocument
    /\ imported = <<>>

\* ExportService.export_projects_vlamy writes page/<base name>.xml
ExportBundle ==
    /\ stage = "source"
    /\ stage' = "exported"
    /\ pagexml' = _generate_pagexml_for_image(image)
    /\ UNCHANGED <<image, imported, ledgerVars, treeVars, callVars>>

\* ImportService._import_project_from_directory reads page/<base name>.xml
ImportBundle ==
    /\ stage = "exported"
    /\ stage' = "imported"
    /\ imported' = _import_annotations_from_pagexml(pagexml)
    /\ UNCHANGED <<image, pagexml, ledgerVars, treeVars, callVars>>

(***************************************************************************)
(* The project tree that the JSON and PageXML exports walk                  *)
(***************************************************************************)
\* most documents of the project
MaxDocuments == 2
\* most images of a document
MaxImages == 2
\* most annotations of an image
MaxTreeAnnotations == 2
\* most saves of existing Document rows
MaxUpdates == 1

\* Python None in a dict that is written as JSON: null
JsonNull == [null |-> TRUE]

\* the positions 1..n of a table in the order ORDER BY key gives them; rows
\* with equal keys keep their creation order
InsertIndex(sorted, keys, i) ==
    SelectSeq(sorted, LAMBDA j : keys[j] <= keys[i]) \o <<i>>
        \o SelectSeq(sorted, LAMBDA j : keys[j] > keys[i])

RECURSIVE SortedIndices(_, _)
SortedIndices(keys, n) ==
    IF n = 0 THEN <<>>
    ELSE InsertIndex(SortedIndices(keys, n - 1), keys, n)

OrderBy(rows, keys) ==
    LET sorted == SortedIndices(keys, Len(rows))
    IN [k \in 1..Len(rows) |-> rows[sorted[k]]]

\* project.documents.all(): Document.Meta.ordering = ['-updated_at']
documents_all(project) ==
    OrderBy(project.documents,
            [i \in 1..Len(project.documents) |-> -project.documents[i].updated_at])

\* document.images.all().order_by('order')
images_by_order(document) ==
    OrderBy(document.images,
            [i \in 1..Len(document.images) |-> document.images[i].order])

\* image.annotations.all(): Annotation.Meta.ordering = ['reading_order',
\* 'created_at']; order_by('reading_order') on rows that created_at already
\* orders
annotations_all(img) ==
    OrderBy(img.annotations,
            [i \in 1..Len(img.annotations) |-> img.annotations[i].reading_order])

\* a Document row with its images in creation order
DocumentRow(name, updated_at, images) ==
    [name |-> name, description |-> <<>>, reading_order |-> JsonNull,
     updated_at |-> updated_at, images |-> images]

\* an Image row with its annotations in creation order and the current
\* full-image transcription
ImageRow(name, order, file_size, anns, t) ==
    [name |-> name, original_filename |-> name \o <<".", "jpg">>,
     order |-> order, file_size |-> file_size] @@ Image(anns, t)

\* a Project row with its documents in creation order
ProjectRow(name, documents) ==
    [name |-> name, description |-> <<>>, documents |-> documents]

(***************************************************************************)
(* JSON export: the dict each export hands to json.dump. The keys id,       *)
(* confidence, created_at, updated_at, owner, exported_at and export_info   *)
(* are written from fields this model does not keep and are left out.       *)
(***************************************************************************)
\* the 'transcription' value with the outer conditional lost: an object with
\* the text '' when the query returned no row
TranscriptionJsonNeverNull(t) ==
    [text |-> IF t.exists THEN t.text_content ELSE <<>>]

\* the 'transcription' value: an object when the query for the current
\* transcription returned a row, None otherwise
TranscriptionJson(t) ==
    IF t.exists THEN [text |-> t.text_content] ELSE JsonNull

\* annotation entry of the image export and of _get_project_export_data
AnnotationJsonFull(a) ==
    [type |-> a.annotation_type,
     classification |-> a.classification,
     coordinates |-> a.coordinates,
     label |-> a.label,
     reading_order |-> a.reading_order,
     metadata |-> a.metadata,
     transcription |-> TranscriptionJson(a.transcription)]

\* annotation entry of the document export and of the project export
AnnotationJsonShort(a) ==
    [type |-> a.annotation_type,
     coordinates |-> a.coordinates,
     label |-> a.label,
     reading_order |-> a.reading_order,
     transcription |-> TranscriptionJson(a.transcription)]

\* image entry of the document, project and bulk exports
ImageJson(img, annotations_data) ==
    [name |-> img.name,
     original_filename |-> img.original_filename,
     width |-> img.width,
     height |-> img.height,
     order |-> img.order,
     transcription |-> TranscriptionJson(img.transcription),
     annotations |-> annotations_data]

ImageJsonShort(img) ==
    LET anns == annotations_all(img)
    IN ImageJson(img, [i \in 1..Len(anns) |-> AnnotationJsonShort(anns[i])])

ImageJsonFull(img) ==
    LET anns == annotations_all(img)
    IN ImageJson(img, [i \in 1..Len(anns) |-> AnnotationJsonFull(anns[i])])

DocumentJsonShort(document) ==
    LET imgs == images_by_order(document)
    IN [name |-> document.name,
        description |-> document.description,
        reading_order |-> document.reading_order,
        images |-> [i \in 1..Len(imgs) |-> ImageJsonShort(imgs[i])]]

DocumentJsonFull(document) ==
    LET imgs == images_by_order(document)
    IN [name |-> document.name,
        description |-> document.description,
        reading_order |-> document.reading_order,
        images |-> [i \in 1..Len(imgs) |-> ImageJsonFull(imgs[i])]]

\* ExportService._export_image_json
_export_image_json(project, document, img) ==
    LET anns == annotations_all(img)
    IN [image |-> [name |-> img.name,
                   original_filename |-> img.original_filename,
                   width |-> img.width,
                   height |-> img.height,
                   document |-> [name |-> document.name,
                                 project |-> [name |-> project.name]]],
        transcription |-> TranscriptionJson(img.transcription),
        annotations |-> [i \in 1..Len(anns) |-> AnnotationJsonFull(anns[i])]]

\* ExportService._export_document_json
_export_document_json(project, document) ==
    LET imgs == images_by_order(document)
    IN [document |-> [name |-> document.name,
                      description |-> document.description,
                      reading_order |-> document.reading_order,
                      project |-> [name |-> project.name]],
        images |-> [i \in 1..Len(imgs) |-> ImageJsonShort(imgs[i])]]

\* ExportService._export_project_json
_export_project_json(project) ==
    LET docs == documents_all(project)
    IN [project |-> [name |-> project.name,
                     description |-> project.description],
        documents |-> [i \in 1..Len(docs) |-> DocumentJsonShort(docs[i])]]

\* ExportService._get_project_export_data
_get_project_export_data(project) ==
    LET docs == documents_all(project)
    IN [name |-> project.name,
        description |-> project.description,
        documents |-> [i \in 1..Len(docs) |-> DocumentJsonFull(docs[i])]]

\* ExportService.export_projects_bulk with export_format 'json'
export_projects_bulk(projects) ==
    [projects |-> [i \in 1..Len(projects) |->
                      _get_project_export_data(projects[i])]]

(***************************************************************************)
(* JSON import: ImportService.import_json_export. The operators are given   *)
(* the dict json.load returns; dict.get(key, default) is Get.               *)
(***************************************************************************)
Get(dict, key, default) ==
    IF key \in DOMAIN dict THEN dict[key] ELSE default

\* the transcription created for a 'transcription' value: none for null and
\* for an empty text
ImportTranscriptionJson(entry) ==
    LET trans_data == Get(entry, "transcription", JsonNull) IN
    IF trans_data # JsonNull /\ Get(trans_data, "text", <<>>) # <<>>
    THEN CurrentText(trans_data.text)
    ELSE NoTranscription

ImportAnnotationJson(ann_data) ==
    [annotation_type |-> ann_data.type,
     classification |-> Get(ann_data, "classification", <<"custom">>),
     coordinates |-> ann_data.coordinates,
     label |-> Get(ann_data, "label", <<>>),
     reading_order |-> Get(ann_data, "reading_order", 0),
     metadata |-> Get(ann_data, "metadata", <<>>),
     transcription |-> ImportTranscriptionJson(ann_data)]

\* the placeholder Image row with its annotations in creation order
ImportImageJson(img_data) ==
    LET anns == Get(img_data, "annotations", <<>>) IN
    [name |-> img_data.name,
     original_filename |-> Get(img_data, "original_filename", JsonNull),
     width |-> Get(img_data, "width", 0),
     height |-> Get(img_data, "height", 0),
     file_size |-> 0,
     order |-> Get(img_data, "order", 1),
     annotations |-> [i \in 1..Len(anns) |-> ImportAnnotationJson(anns[i])],
     transcription |-> ImportTranscriptionJson(img_data)]

\* the Document row created at time created_at
ImportDocumentJson(doc_data, created_at) ==
    LET imgs == Get(doc_data, "images", <<>>) IN
    [name |-> doc_data.name,
     description |-> Get(doc_data, "description", <<>>),
     reading_order |-> Get(doc_data, "reading_order", 1),
     updated_at |-> created_at,
     images |-> [i \in 1..Len(imgs) |-> ImportImageJson(imgs[i])]]

\* ImportService._get_unique_project_name, for the names the owner has
RECURSIVE UniqueName(_, _, _)
UniqueName(original_name, counter, existing) ==
    LET base_name == IF counter = 0 THEN original_name
                     ELSE original_name \o <<" ", "(">> \o IntToStr(counter)
                          \o <<")">>
    IN IF base_name \in existing
       THEN UniqueName(original_name, counter + 1, existing)
       ELSE base_name

\* ImportService._import_project_from_json: project_data['name'] raises
\* KeyError when the dict has no such key, before any row is created
_import_project_from_json(project_data, existing, clock) ==
    IF "name" \notin DOMAIN project_data
    THEN [raised |-> TRUE, project |-> JsonNull]
    ELSE LET docs == Get(project_data, "documents", <<>>) IN
         [raised |-> FALSE,
          project |->
            [name |-> UniqueName(project_data.name, 0, existing),
             description |-> Get(project_data, "description", <<>>),
             documents |-> [i \in 1..Len(docs) |->
                              ImportDocumentJson(docs[i], clock + i)]]]

\* the loop over data['projects']: the projects created until one raises
RECURSIVE ImportProjectsJson(_, _, _)
ImportProjectsJson(projects, existing, clock) ==
    IF projects = <<>> THEN [raised |-> FALSE, projects |-> <<>>]
    ELSE LET first == _import_project_from_json(Head(projects), existing, clock)
         IN IF first.raised THEN [raised |-> TRUE, projects |-> <<>>]
            ELSE LET rest == ImportProjectsJson(Tail(projects),
                                existing \cup {first.project.name},
                                clock + Len(first.project.documents))
                 IN [raised |-> rest.raised,
                     projects |-> <<first.project>> \o rest.projects]

\* ImportService.import_json_export: the projects the call leaves in the
\* database, and whether it raised
import_json_export(data, existing, clock) ==
    IF "projects" \in DOMAIN data
    THEN ImportProjectsJson(data.projects, existing, clock)
    ELSE LET only == _import_project_from_json(data, existing, clock)
         IN [raised |-> only.raised,
             projects |-> IF only.raised THEN <<>> ELSE <<only.project>>]

(***************************************************************************)
(* PageXML export of an image, a document or a project                      *)
(***************************************************************************)
\* autoescaping of {{ variable }} by the template engine
TemplateEscape(text) ==
    Replace(Replace(Replace(Replace(Replace(text,
        "&", <<"&", "amp", ";">>),
        "<", <<"&", "lt", ";">>),
        ">", <<"&", "gt", ";">>),
        "\"", <<"&", "quot", ";">>),
        "'", <<"&", "#x27", ";">>)

\* the TextRegion the template writes for the context's transcription
TemplateTranscriptionRegion(transcription) ==
    [tag |-> "TextRegion", hasCoords |-> FALSE, points |-> <<>>,
     hasTextLine |-> TRUE,
     unicode |-> TemplateEscape(transcription.text_content)]

\* the TextRegion the template writes for one annotation. The test
\* {% if annotation.transcriptions.current %} looks up 'current' on the
\* related manager, which has no such attribute: the lookup yields nothing
\* and the TextLine is not written
TemplateAnnotationRegion(annotation) ==
    [tag |-> "TextRegion",
     hasCoords |-> annotation.annotation_type \in {<<"bbox">>, <<"polygon">>},
     points |-> IF annotation.annotation_type \in {<<"bbox">>, <<"polygon">>}
                THEN CoordsPoints(annotation) ELSE <<>>,
     hasTextLine |-> FALSE,
     unicode |-> <<>>]

\* ExportService._render_pagexml_template: the Page elements of the rendered
\* document; only the context keys image, transcription and annotations are
\* used by the template
_render_pagexml_template(context) ==
    IF "image" \in DOMAIN context
    THEN LET anns == Get(context, "annotations", <<>>)
             transcription == Get(context, "transcription", NoTranscription)
         IN [pages |->
              <<[imageFilename |-> TemplateEscape(context.image.original_filename),
                 imageWidth |-> context.image.width,
                 imageHeight |-> context.image.height,
                 regions |->
                    (IF transcription.exists
                     THEN <<TemplateTranscriptionRegion(transcription)>>
                     ELSE <<>>)
                    \o [i \in 1..Len(anns) |->
                          TemplateAnnotationRegion(anns[i])]]>>]
    ELSE [pages |-> <<>>]

\* ExportService._export_image_pagexml
_export_image_pagexml(img) ==
    _render_pagexml_template(
        [image |-> img,
         transcription |-> img.transcription,
         annotations |-> annotations_all(img)])

\* ExportService._export_document_pagexml
_export_document_pagexml(document) ==
    _render_pagexml_template(
        [document |-> document, images |-> images_by_order(document)])

\* ExportService._export_project_pagexml
_export_project_pagexml(project) ==
    _render_pagexml_template(
        [project |-> project, documents |-> documents_all(project)])

\* the Page written for one image by _generate_pagexml_for_project
ProjectPage(img) ==
    [imageFilename |-> IF img.original_filename # <<>>
                       THEN img.original_filename ELSE img.name,
     imageWidth |-> img.width,
     imageHeight |-> img.height,
     regions |-> IF img.transcription.exists
                 THEN <<[tag |-> "TextRegion", hasCoords |-> TRUE,
                         points |-> <<<<0, 0>>, <<img.width, 0>>,
                                      <<img.width, img.height>>,
                                      <<0, img.height>>>>,
                         hasTextLine |-> TRUE,
                         unicode |-> _escape_xml(img.transcription.text_content)]>>
                 ELSE <<>>]

RECURSIVE Flatten(_)
Flatten(seqs) ==
    IF seqs = <<>> THEN <<>> ELSE Head(seqs) \o Flatten(Tail(seqs))

\* the images of a project in the order the exports visit them
ImagesInExportOrder(project) ==
    LET docs == documents_all(project)
    IN Flatten([i \in 1..Len(docs) |-> images_by_order(docs[i])])

\* ExportService._generate_pagexml_for_project (bulk PageXML export)
_generate_pagexml_for_project(project) ==
    LET imgs == ImagesInExportOrder(project)
    IN [pages |-> [i \in 1..Len(imgs) |-> ProjectPage(imgs[i])]]

(***************************************************************************)
(* Source projects and the export and import requests                       *)
(***************************************************************************)
BBoxShape == [annotation_type |-> <<"bbox">>, coordinates |-> BBox(1, 2, 3, 4)]

PlainAnnotation == 
    SourceAnnotation(BBoxShape, "MainZone", <<"a">>, 0, <<>>,
                     CurrentText(<<"a">>))

TreeTranscriptions == {NoTranscription, CurrentText(<<>>), CurrentText(<<"a">>)}

TreeMetadata == {<<>>, <<[key |-> <<"k">>, value |-> StrValue(<<"v">>)]>>}

\* the first annotation of the first image
TreeAnnotations ==
    {SourceAnnotation(sh, "MainZone", <<"a">>, r, m, t) :
        sh \in SourceShapes, r \in {0, 1}, m \in TreeMetadata,
        t \in TreeTranscriptions}

\* an uploaded image: it has a file of 9 bytes
UploadedImage(name, order, anns, t) == ImageRow(name, order, 9, anns, t)

\* the images of the first document: the first one created has order o1 of
\* 0..k, the k later ones have the other orders, ascending
FirstDocumentImages(first_anns, t, k, o1) ==
    <<UploadedImage(<<"i", "0">>, o1, first_anns, t)>>
    \o [j \in 1..k |->
          UploadedImage(<<"i">> \o IntToStr(j), IF j <= o1 THEN j - 1 ELSE j,
                        <<>>, NoTranscription)]

\* a later document, created at time j, with one image
LaterDocument(j) ==
    DocumentRow(<<"d">> \o IntToStr(j), j,
        <<UploadedImage(<<"j">> \o IntToStr(j), 1, <<PlainAnnotation>>,
                        NoTranscription)>>)

NoArtifact == [kind |-> "none", of |-> <<>>, data |-> JsonNull]

NotImported == [from |-> "none", raised |-> FALSE, projects |-> <<>>]

\* no project: the tree requests are not part of the run
TreeOff ==
    /\ tree = ProjectRow(<<>>, <<>>)
    /\ now = 0
    /\ artifact = NoArtifact
    /\ reimported = NotImported

TreeInit ==
    /\ \E a \in TreeAnnotations, n \in 0..MaxTreeAnnotations,
         t \in TreeTranscriptions, k \in 0..(MaxImages - 1),
         nd \in 1..MaxDocuments :
         \E o1 \in 0..k :
            tree = ProjectRow(<<"p">>,
                     <<DocumentRow(<<"d", "1">>, 1,
                         FirstDocumentImages(
                            [i \in 1..n |-> IF i = 1 THEN a ELSE PlainAnnotation],
                            t, k, o1))>>
                     \o [j \in 1..(nd - 1) |-> LaterDocument(j + 1)])
    /\ now = MaxDocuments + 1
    /\ artifact = NoArtifact
    /\ reimported = NotImported

Documents == 1..Len(tree.documents)

ImagesOf(d) == 1..Len(tree.documents[d].images)

\* a save() of an existing Document row: auto_now stamps updated_at
UpdateDocument(d) ==
    /\ now < MaxDocuments + 1 + MaxUpdates
    /\ tree' = [tree EXCEPT !.documents[d].updated_at = now]
    /\ now' = now + 1
    /\ UNCHANGED <<artifact, reimported, ledgerVars, codecVars, callVars>>

\* an export request writes a file
Export(kind, of, data) ==
    /\ artifact' = [kind |-> kind, of |-> of, data |-> data]
    /\ UNCHANGED <<tree, now, reimported, ledgerVars, codecVars, callVars>>

\* ExportService.export_image
ExportImageJson(d, i) ==
    Export("image_json", <<d, i>>,
           _export_image_json(tree, tree.documents[d],
                              tree.documents[d].images[i]))

ExportImagePageXml(d, i) ==
    Export("image_pagexml", <<d, i>>,
           _export_image_pagexml(tree.documents[d].images[i]))

\* ExportService.export_document
ExportDocumentJson(d) ==
    Export("document_json", <<d>>,
           _export_document_json(tree, tree.documents[d]))

ExportDocumentPageXml(d) ==
    Export("document_pagexml", <<d>>,
           _export_document_pagexml(tree.documents[d]))

\* ExportService.export_project
ExportProjectJson ==
    Export("project_json", <<>>, _export_project_json(tree))

ExportProjectPageXml ==
    Export("project_pagexml", <<>>, _export_project_pagexml(tree))

\* ExportService.export_projects_bulk
ExportBulkJson ==
    Export("bulk_json", <<>>, export_projects_bulk(<<tree>>))

ExportBulkPageXml ==
    Export("bulk_pagexml", <<>>, _generate_pagexml_for_project(tree))

\* ExportService.export_projects_vlamy: one page/<base name>.xml per image
\* that has a file, in the order the images are visited
export_projects_vlamy(project) ==
    LET imgs == ImagesInExportOrder(project)
    IN [i \in 1..Len(imgs) |->
          [filename |-> imgs[i].original_filename,
           pagexml |-> _generate_pagexml_for_image(
                          Image(annotations_all(imgs[i]),
                                imgs[i].transcription))]]

ExportVlamy ==
    Export("vlamy", <<>>, export_projects_vlamy(tree))

\* ImportService.import_json_export of the file of a project or bulk JSON
\* export, by the owner of the exported project
ImportJson ==
    /\ artifact.kind \in {"project_json", "bulk_json"}
    /\ reimported' = [from |-> artifact.kind] @@
                     import_json_export(artifact.data, {tree.name}, now)
    /\ UNCHANGED <<tree, now, artifact, ledgerVars, codecVars, callVars>>

(***************************************************************************)
(* Bundle import: ImportService.import_vlamy_zip                            *)
(***************************************************************************)
\* str.lower() of a file extension
LowerExt == [jpg |-> "jpg", JPG |-> "jpg", png |-> "png", txt |-> "txt"]

ImageExtensions == {"jpg", "jpeg", "png", "tiff", "tif", "bmp"}

\* ImportService._import_image_from_file: the Image row; PILImage.open
\* raises on a file it cannot read, before the row is created
_import_image_from_file(file, order) ==
    IF ~file.opens
    THEN [raised |-> TRUE, image |-> JsonNull]
    ELSE [raised |-> FALSE,
          image |-> [name |-> file.base,
                     original_filename |-> file.base \o <<".", file.ext>>,
                     width |-> file.width, height |-> file.height,
                     file_size |-> file.file_size, order |-> order,
                     annotations |-> <<>>,
                     transcription |-> NoTranscription]]

\* the loop over os.listdir(project_path): a file that raises is passed over
RECURSIVE ImportFiles(_, _)
ImportFiles(files, image_order) ==
    IF files = <<>> THEN <<>>
    ELSE LET file == Head(files) IN
         IF LowerExt[file.ext] \notin ImageExtensions
         THEN ImportFiles(Tail(files), image_order)
         ELSE LET made == _import_image_from_file(file, image_order) IN
              IF made.raised
              THEN ImportFiles(Tail(files), image_order)
              ELSE <<[made.image EXCEPT !.annotations =
                        IF file.hasPageXml
                        THEN _import_annotations_from_pagexml(file.pagexml)
                        ELSE <<>>]>>
                   \o ImportFiles(Tail(files), image_order + 1)

\* ImportService._import_project_from_directory: metadata['name'] raises
\* KeyError when metadata.json has no name, before any row is created
_import_project_from_directory(dir, existing, clock) ==
    IF "name" \notin DOMAIN dir.metadata
    THEN [raised |-> TRUE, project |-> JsonNull]
    ELSE LET project_name == UniqueName(dir.metadata.name, 0, existing) IN
         [raised |-> FALSE,
          project |->
            [name |-> project_name,
             description |-> Get(dir.metadata, "description", <<>>),
             documents |->
               <<[name |-> Get(dir.metadata, "original_document_name",
                               project_name),
                  description |-> <<"Imported from VLAMy export:">>,
                  reading_order |-> 1,
                  updated_at |-> clock,
                  images |-> ImportFiles(dir.files, 1)]>>]]

\* ImportService.import_vlamy_zip: the loop over the extracted directories;
\* a directory whose import raises is passed over
RECURSIVE import_vlamy_zip(_, _, _)
import_vlamy_zip(dirs, existing, clock) ==
    IF dirs = <<>> THEN <<>>
    ELSE IF ~Head(dirs).hasMetadata
    THEN import_vlamy_zip(Tail(dirs), existing, clock)
    ELSE LET made == _import_project_from_directory(Head(dirs), existing, clock)
         IN IF made.raised
            THEN import_vlamy_zip(Tail(dirs), existing, clock)
            ELSE <<made.project>>
                 \o import_vlamy_zip(Tail(dirs),
                                     existing \cup {made.project.name},
                                     clock + 1)

(***************************************************************************)
(* Batches given to the imports                                             *)
(***************************************************************************)
\* most items (regions, files, projects) of an imported batch
MaxBatch == 3

RECURSIVE SeqsUpTo(_, _)
SeqsUpTo(S, n) ==
    IF n = 0 THEN {<<>>}
    ELSE LET T == SeqsUpTo(S, n - 1)
         IN T \cup {Append(x, e) : x \in T, e \in S}

\* a region as the bundle export writes it
GoodRegion == RegionElement(PlainAnnotation)

\* a region whose Coords points attribute is "1,2,3 4,5 6,7"
MalformedRegion ==
    [GoodRegion EXCEPT !.points = <<<<1, 2, 3>>, <<4, 5>>, <<6, 7>>>>]

\* a region with too few points: the import passes over it
ShortRegion == [GoodRegion EXCEPT !.points = <<<<1, 2>>>>]

BatchFiles ==
    SeqsUpTo({GoodRegion, MalformedRegion, ShortRegion}, MaxBatch) \ {<<>>}

ImageFile(base, opens) ==
    [base |-> <<base>>, ext |-> "jpg", opens |-> opens,
     width |-> 8, height |-> 6, file_size |-> 9,
     hasPageXml |-> TRUE, pagexml |-> [regions |-> <<GoodRegion>>]]

\* a directory of a bundle: image files that open ("g") or do not ("u")
BundleDirectory(metadata, kinds) ==
    [hasMetadata |-> TRUE, metadata |-> metadata,
     files |-> [i \in 1..Len(kinds) |-> ImageFile(kinds[i], kinds[i] = "g")]]

GoodMetadata == [name |-> <<"p">>, description |-> <<>>]

\* a metadata.json without a name
NamelessMetadata == [description |-> <<>>]

BatchDirectories ==
    {BundleDirectory(GoodMetadata, kinds) :
        kinds \in SeqsUpTo({"g", "u"}, MaxBatch) \ {<<>>}}

BatchBundles ==
    SeqsUpTo({BundleDirectory(GoodMetadata, <<"g">>),
              BundleDirectory(NamelessMetadata, <<"g">>)}, MaxBatch) \ {<<>>}

GoodProjectData ==
    _get_project_export_data(
        ProjectRow(<<"p">>, <<DocumentRow(<<"d", "1">>, 1, <<>>)>>))

\* a project of the envelope that has no name
NamelessProjectData == [description |-> <<>>, documents |-> <<>>]

BatchEnvelopes ==
    {[projects |-> ps] :
        ps \in SeqsUpTo({GoodProjectData, NamelessProjectData}, MaxBatch)
               \ {<<>>}}

(***************************************************************************)
(* Detection: the classification mapper of RoboflowDetectionService. Class  *)
(* names are strings of characters.                                         *)
(***************************************************************************)
\* zone_values: the codes of ZONE_TYPES, spelt out in characters
zone_values ==
    {<<"C", "u", "s", "t", "o", "m", "Z", "o", "n", "e">>,
     <<"D", "a", "m", "a", "g", "e", "Z", "o", "n", "e">>,
     <<"D", "i", "g", "i", "t", "i", "z", "a", "t", "i", "o", "n", "A", "r", "t", "e", "f", "a", "c", "t", "Z", "o", "n", "e">>,
     <<"D", "r", "o", "p", "C", "a", "p", "i", "t", "a", "l", "Z", "o", "n", "e">>,
     <<"G", "r", "a", "p", "h", "i", "c", "Z", "o", "n", "e">>,
     <<"M", "a", "i", "n", "Z", "o", "n", "e">>,
     <<"M", "a", "r", "g", "i", "n", "T", "e", "x", "t", "Z", "o", "n", "e">>,
     <<"M", "u", "s", "i", "c", "Z", "o", "n", "e">>,
     <<"N", "u", "m", "b", "e", "r", "i", "n", "g", "Z", "o", "n", "e">>,
     <<"Q", "u", "i", "r", "e", "M", "a", "r", "k", "s", "Z", "o", "n", "e">>,
     <<"R", "u", "n", "n", "i", "n", "g", "T", "i", "t", "l", "e", "Z", "o", "n", "e">>,
     <<"S", "e", "a", "l", "Z", "o", "n", "e">>,
     <<"S", "t", "a", "m", "p", "Z", "o", "n", "e">>,
     <<"T", "a", "b", "l", "e", "Z", "o", "n", "e">>,
     <<"T", "i", "t", "l", "e", "P", "a", "g", "e", "Z", "o", "n", "e">>}

\* line_values: the codes of LINE_TYPES, spelt out in characters
line_values ==
    {<<"C", "u", "s", "t", "o", "m", "L", "i", "n", "e">>,
     <<"D", "e", "f", "a", "u", "l", "t", "L", "i", "n", "e">>,
     <<"D", "r", "o", "p", "C", "a", "p", "i", "t", "a", "l", "L", "i", "n", "e">>,
     <<"H", "e", "a", "d", "i", "n", "g", "L", "i", "n", "e">>,
     <<"I", "n", "t", "e", "r", "l", "i", "n", "e", "a", "r", "L", "i", "n", "e">>,
     <<"M", "u", "s", "i", "c", "L", "i", "n", "e">>}

UpperToLower ==
    [A |-> "a", B |-> "b", C |-> "c", D |-> "d", E |-> "e", F |-> "f", G |-> "g", H |-> "h", I |-> "i", J |-> "j", K |-> "k", L |-> "l", M |-> "m",
     N |-> "n", O |-> "o", P |-> "p", Q |-> "q", R |-> "r", S |-> "s", T |-> "t", U |-> "u", V |-> "v", W |-> "w", X |-> "x", Y |-> "y", Z |-> "z"]

\* str.lower()
Lower(str) ==
    [i \in 1..Len(str) |->
        IF str[i] \in DOMAIN UpperToLower THEN UpperToLower[str[i]] ELSE str[i]]

\* keyword in str
HasSubstring(str, keyword) ==
    \E i \in 0..(Len(str) - Len(keyword)) :
       SubSeq(str, i + 1, i + Len(keyword)) = keyword

line_keywords ==
    {<<"l", "i", "n", "e">>,
     <<"r", "o", "w">>,
     <<"t", "e", "x", "t", "_", "l", "i", "n", "e">>,
     <<"b", "a", "s", "e", "l", "i", "n", "e">>}

\* width / height if height > 0 else 1, as a fraction
AspectRatio(width, height) ==
    IF height > 0 THEN [num |-> width, den |-> height]
    ELSE [num |-> 1, den |-> 1]

\* RoboflowDetectionService._classify_detection_type
_classify_detection_type(classification, aspect_ratio) ==
    IF \E keyword \in line_keywords :
          HasSubstring(Lower(classification), keyword)
    THEN "line"
    ELSE IF aspect_ratio.num > 3 * aspect_ratio.den THEN "line"
    ELSE "zone"

zone_mappings ==
    (<<"t", "e", "x", "t">> :> <<"M", "a", "i", "n", "Z", "o", "n", "e">>)
    @@ (<<"t", "e", "x", "t", "_", "r", "e", "g", "i", "o", "n">> :> <<"M", "a", "i", "n", "Z", "o", "n", "e">>)
    @@ (<<"p", "a", "r", "a", "g", "r", "a", "p", "h">> :> <<"M", "a", "i", "n", "Z", "o", "n", "e">>)
    @@ (<<"t", "i", "t", "l", "e">> :> <<"T", "i", "t", "l", "e", "P", "a", "g", "e", "Z", "o", "n", "e">>)
    @@ (<<"h", "e", "a", "d", "i", "n", "g">> :> <<"M", "a", "i", "n", "Z", "o", "n", "e">>)
    @@ (<<"t", "a", "b", "l", "e">> :> <<"T", "a", "b", "l", "e", "Z", "o", "n", "e">>)
    @@ (<<"i", "m", "a", "g", "e">> :> <<"G", "r", "a", "p", "h", "i", "c", "Z", "o", "n", "e">>)
    @@ (<<"f", "i", "g", "u", "r", "e">> :> <<"G", "r", "a", "p", "h", "i", "c", "Z", "o", "n", "e">>)
    @@ (<<"g", "r", "a", "p", "h", "i", "c">> :> <<"G", "r", "a", "p", "h", "i", "c", "Z", "o", "n", "e">>)
    @@ (<<"m", "a", "r", "g", "i", "n">> :> <<"M", "a", "r", "g", "i", "n", "T", "e", "x", "t", "Z", "o", "n", "e">>)
    @@ (<<"f", "o", "o", "t", "e", "r">> :> <<"M", "a", "r", "g", "i", "n", "T", "e", "x", "t", "Z", "o", "n", "e">>)
    @@ (<<"h", "e", "a", "d", "e", "r">> :> <<"M", "a", "r", "g", "i", "n", "T", "e", "x", "t", "Z", "o", "n", "e">>)
    @@ (<<"p", "a", "g", "e", "_", "n", "u", "m", "b", "e", "r">> :> <<"N", "u", "m", "b", "e", "r", "i", "n", "g", "Z", "o", "n", "e">>)
    @@ (<<"s", "t", "a", "m", "p">> :> <<"S", "t", "a", "m", "p", "Z", "o", "n", "e">>)
    @@ (<<"s", "e", "a", "l">> :> <<"S", "e", "a", "l", "Z", "o", "n", "e">>)
    @@ (<<"e", "n", "v", "e", "l", "o", "p", "e">> :> <<"C", "u", "s", "t", "o", "m", "Z", "o", "n", "e">>)
    @@ (<<"p", "o", "s", "t", "c", "a", "r", "d">> :> <<"C", "u", "s", "t", "o", "m", "Z", "o", "n", "e">>)

line_mappings ==
    (<<"t", "e", "x", "t", "_", "l", "i", "n", "e">> :> <<"D", "e", "f", "a", "u", "l", "t", "L", "i", "n", "e">>)
    @@ (<<"l", "i", "n", "e">> :> <<"D", "e", "f", "a", "u", "l", "t", "L", "i", "n", "e">>)
    @@ (<<"h", "e", "a", "d", "i", "n", "g", "_", "l", "i", "n", "e">> :> <<"H", "e", "a", "d", "i", "n", "g", "L", "i", "n", "e">>)
    @@ (<<"t", "i", "t", "l", "e", "_", "l", "i", "n", "e">> :> <<"H", "e", "a", "d", "i", "n", "g", "L", "i", "n", "e">>)

\* no user profile was passed: user_profile=None
NoProfile == [none |-> TRUE]

\* value in list
InList(value, list) == \E i \in 1..Len(list) : list[i] = value

\* the mapper with the user's custom mapping asked before the built-in codes
MapClassificationCustomFirst(original_class, detection_type, user_profile) ==
    IF /\ user_profile # NoProfile
       /\ original_class \in DOMAIN user_profile.custom_detection_mappings
       /\ user_profile.custom_detection_mappings[original_class] # <<>>
    THEN user_profile.custom_detection_mappings[original_class]
    ELSE IF original_class \in (IF detection_type = "zone" THEN zone_values
                                ELSE line_values)
    THEN original_class
    ELSE IF /\ user_profile # NoProfile
            /\ detection_type = "zone"
            /\ InList(original_class, user_profile.enabled_zone_types)
    THEN original_class
    ELSE LET normalized_class == Replace(Lower(original_class), " ", <<"_">>)
         IN IF detection_type = "line"
            THEN Get(line_mappings, normalized_class, <<"D", "e", "f", "a", "u", "l", "t", "L", "i", "n", "e">>)
            ELSE Get(zone_mappings, normalized_class, <<"C", "u", "s", "t", "o", "m", "Z", "o", "n", "e">>)

\* RoboflowDetectionService._map_classification; a custom mapping counts
\* when the dict has the key and its value is not empty
_map_classification(original_class, detection_type, user_profile) ==
    IF original_class \in (IF detection_type = "zone" THEN zone_values
                           ELSE line_values)
    THEN original_class
    ELSE IF /\ user_profile # NoProfile
            /\ original_class \in DOMAIN user_profile.custom_detection_mappings
            /\ user_profile.custom_detection_mappings[original_class] # <<>>
    THEN user_profile.custom_detection_mappings[original_class]
    ELSE IF /\ user_profile # NoProfile
            /\ detection_type = "zone"
            /\ InList(original_class, user_profile.enabled_zone_types)
    THEN original_class
    ELSE LET normalized_class == Replace(Lower(original_class), " ", <<"_">>)
         IN IF detection_type = "line"
            THEN Get(line_mappings, normalized_class, <<"D", "e", "f", "a", "u", "l", "t", "L", "i", "n", "e">>)
            ELSE Get(zone_mappings, normalized_class, <<"C", "u", "s", "t", "o", "m", "Z", "o", "n", "e">>)

\* the list UserProfile.save() stores when enabled_zone_types is empty
DefaultEnabledZones ==
    <<<<"M", "a", "i", "n", "Z", "o", "n", "e">>,
      <<"G", "r", "a", "p", "h", "i", "c", "Z", "o", "n", "e">>,
      <<"T", "a", "b", "l", "e", "Z", "o", "n", "e">>,
      <<"D", "r", "o", "p", "C", "a", "p", "i", "t", "a", "l", "Z", "o", "n", "e">>,
      <<"M", "u", "s", "i", "c", "Z", "o", "n", "e">>,
      <<"M", "a", "r", "g", "i", "n", "T", "e", "x", "t", "Z", "o", "n", "e">>,
      <<"C", "u", "s", "t", "o", "m", "Z", "o", "n", "e">>>>

\* class names a detector returns
RawClasses ==
    {<<"M", "a", "i", "n", "Z", "o", "n", "e">>,
     <<"H", "e", "a", "d", "i", "n", "g", "L", "i", "n", "e">>,
     <<"T", "e", "x", "t", " ", "R", "e", "g", "i", "o", "n">>,
     <<"t", "e", "x", "t">>,
     <<"T", "i", "t", "l", "e">>,
     <<"H", "e", "a", "d", "i", "n", "g", " ", "L", "i", "n", "e">>,
     <<"F", "o", "o">>,
     <<"r", "o", "w">>}

\* the classes a user has custom mappings for, and what they map them to
MappedClasses ==
    {<<"M", "a", "i", "n", "Z", "o", "n", "e">>,
     <<"F", "o", "o">>,
     <<"t", "e", "x", "t">>}

MappingTargets ==
    {<<>>,
     <<"C", "u", "s", "t", "o", "m", "L", "i", "n", "e">>}

\* the custom_detection_mappings dicts: any of the mapped classes, each to
\* any of the targets
CustomMappings ==
    UNION {[keys -> MappingTargets] : keys \in SUBSET MappedClasses}

EnabledZoneLists ==
    {DefaultEnabledZones,
     Append(DefaultEnabledZones, <<"F", "o", "o">>),
     Append(DefaultEnabledZones, <<"t", "e", "x", "t">>)}

UserProfiles ==
    {[custom_detection_mappings |-> m, enabled_zone_types |-> z] :
        m \in CustomMappings, z \in EnabledZoneLists}

(***************************************************************************)
(* Detection: the parser of the detector's response. Lengths are counted in *)
(* half pixels, so that width / 2 is exact for the whole-pixel values a     *)
(* detector returns. The key detection_id is left out.                      *)
(***************************************************************************)
\* most detections of one response
MaxDetections == 2
\* the largest centre coordinate and extent of a detection, in pixels
MaxPixel == 4

Pixels(n) == 2 * n

\* a JSON list as the value json hands over: isinstance(value, list)
JsonList(items) == [list |-> items]

\* the dict appended for one prediction; the value of
\* _classify_detection_type is computed and not used
Detection(prediction, image_width, image_height) ==
    LET x_center == Get(prediction, "x", 0)
        y_center == Get(prediction, "y", 0)
        width == Get(prediction, "width", 0)
        height == Get(prediction, "height", 0)
        x == x_center - (width \div 2)
        y == y_center - (height \div 2)
        classification == Get(prediction, "class", <<"U", "n", "k", "n", "o", "w", "n">>)
        confidence == Get(prediction, "confidence", 0)
    IN [annotation_type |-> "bbox",
        coordinates |-> [x |-> Max({0, x}),
                         y |-> Max({0, y}),
                         width |-> Min({width, image_width - x}),
                         height |-> Min({height, image_height - y})],
        classification |-> classification,
        confidence |-> confidence,
        original_class |-> classification]

\* RoboflowDetectionService._parse_roboflow_results. Without the key
\* 'predictions' image_width is not bound at the return statement: the call
\* raises UnboundLocalError
_parse_roboflow_results(api_response) ==
    LET predictions_data ==
            IF "list" \in DOMAIN api_response /\ Len(api_response.list) > 0
            THEN api_response.list[1] ELSE api_response
    IN IF "predictions" \notin DOMAIN predictions_data
       THEN [raised |-> TRUE, detections |-> <<>>]
       ELSE LET image_info == Get(predictions_data.predictions, "image", <<>>)
                image_width == Get(image_info, "width", 0)
                image_height == Get(image_info, "height", 0)
                predictions ==
                    Get(predictions_data.predictions, "predictions", <<>>)
            IN [raised |-> FALSE,
                detections |->
                    [i \in 1..Len(predictions) |->
                        Detection(predictions[i], image_width, image_height)],
                image_info |-> [width |-> image_width, height |-> image_height],
                total_detections |-> Len(predictions)]

\* the class names of the first detection of a response
DetectedClasses ==
    {<<"M", "a", "i", "n", "Z", "o", "n", "e">>, <<"t", "e", "x", "t">>, <<"r", "o", "w">>}

\* the detections a response holds after its first
LaterPredictions ==
    {[x |-> Pixels(1), y |-> Pixels(1), width |-> Pixels(2),
      height |-> Pixels(2), class |-> <<"F", "o", "o">>, confidence |-> 70],
     [confidence |-> 20]}

\* a workflow result for an image: the first detection (xc, yc, w, h, class c,
\* confidence p) and the later ones
WorkflowResult(image_width, image_height, xc, yc, w, h, c, p, later) ==
    [predictions |->
        [image |-> [width |-> image_width, height |-> image_height],
         predictions |->
            <<[x |-> xc, y |-> yc, width |-> w, height |-> h,
               class |-> c, confidence |-> p]>> \o later]]

(***************************************************************************)
(* OCRService._extract_annotation_region; lengths in pixels                 *)
(***************************************************************************)
\* PIL Image.crop(box): the returned image has the extent of the box, the
\* part of it outside the source image is filled with zeros; the call
\* raises ValueError when right < left or lower < upper
crop(box) ==
    IF box[3] < box[1] \/ box[4] < box[2]
    THEN [raised |-> TRUE, box |-> <<>>]
    ELSE [raised |-> FALSE, box |-> box]

\* mask.getbbox() of the polygon drawn on a mask of the image's size: the
\* bounding box of the polygon's pixels that lie on the mask, None for none
PolygonBBox(size, points) ==
    LET xs == {points[i][1] : i \in 1..Len(points)}
        ys == {points[i][2] : i \in 1..Len(points)}
        left == Max({0, Min(xs)})
        upper == Max({0, Min(ys)})
        right == Min({size[1], Max(xs) + 1})
        lower == Min({size[2], Max(ys) + 1})
    IN IF left < right /\ upper < lower
       THEN <<left, upper, right, lower>> ELSE JsonNull

\* OCRService._extract_annotation_region: the extent, in the image's
\* coordinates, of the region saved to the temporary file
_extract_annotation_region(size, annotation) ==
    IF annotation.annotation_type = "bbox"
    THEN LET x == annotation.coordinates.x
             y == annotation.coordinates.y
             width == annotation.coordinates.width
             height == annotation.coordinates.height
         IN crop(<<x, y, x + width, y + height>>)
    ELSE LET bbox == PolygonBBox(size, annotation.coordinates.points)
         IN IF bbox # JsonNull THEN crop(bbox)
            ELSE [raised |-> FALSE, box |-> <<0, 0, size[1], size[2]>>]

BBoxAnnotation(x, y, width, height) ==
    [annotation_type |-> "bbox",
     coordinates |-> [x |-> x, y |-> y, width |-> width, height |-> height]]

PolygonAnnotations ==
    {[annotation_type |-> "polygon", coordinates |-> [points |-> ps]] :
        ps \in {<<<<0, 0>>, <<2, 0>>, <<1, 2>>>>,
                <<<<-1, 1>>, <<5, 1>>, <<2, 6>>>>,
                <<<<6, 6>>, <<8, 6>>, <<7, 8>>>>}}

(***************************************************************************)
(* Calls of service functions                                               *)
(***************************************************************************)
NewCall(op, args) == [op |-> op, args |-> args, done |-> FALSE, result |-> <<>>]

\* the call returns
Return_(result) ==
    /\ ~call.done
    /\ call' = [call EXCEPT !.done = TRUE, !.result = result]
    /\ UNCHANGED <<ledgerVars, codecVars, treeVars, tmpfiles>>

ImportPageXmlFile ==
    /\ call.op = "_import_annotations_from_pagexml"
    /\ Return_(_import_annotations_from_pagexml(call.args))

ImportDirectory ==
    /\ call.op = "import_vlamy_directory"
    /\ Return_(_import_project_from_directory(call.args, {}, 1))

ImportZip ==
    /\ call.op = "import_vlamy_zip"
    /\ Return_(import_vlamy_zip(call.args, {}, 1))

ImportJsonEnvelope ==
    /\ call.op = "import_json_export"
    /\ Return_(import_json_export(call.args, {}, 1))

MapClassification ==
    /\ call.op = "_map_classification"
    /\ Return_(_map_classification(call.args.original_class,
                                   call.args.detection_type,
                                   call.args.user_profile))

ParseRoboflowResults ==
    /\ call.op = "_parse_roboflow_results"
    /\ Return_(_parse_roboflow_results(call.args))

ExtractAnnotationRegion ==
    /\ call.op = "_extract_annotation_region"
    /\ Return_(_extract_annotation_region(call.args.size,
                                          call.args.annotation))

(***************************************************************************)
(* The paths that store an Annotation: the API serializer, the JSON import  *)
(* and the PageXML import                                                   *)
(***************************************************************************)
\* AnnotationSerializer.validate_coordinates: TRUE when no ValidationError
\* is raised. A bbox value has the four fields, with numbers in them; a
\* polygon value has a list of points
validate_coordinates(annotation_type, value) ==
    IF annotation_type = <<"bbox">> THEN value.shape = "bbox"
    ELSE IF annotation_type = <<"polygon">>
    THEN value.shape = "points" /\ Len(value.points) >= 3
    ELSE TRUE

\* POST to AnnotationViewSet: the ChoiceField of annotation_type and
\* validate_coordinates, then serializer.save()
AnnotationCreate(data) ==
    IF /\ data.annotation_type \in {<<"bbox">>, <<"polygon">>}
       /\ validate_coordinates(data.annotation_type, data.coordinates)
    THEN <<[annotation_type |-> data.annotation_type,
            coordinates |-> data.coordinates]>>
    ELSE <<>>

\* the coordinates a request, a JSON file or a Coords element can carry
GivenBoxes ==
    {BBox(x, y, w, h) : x \in {-1, 0, 1}, y \in {0, 2}, w \in 0..2, h \in {0, 1}}

GivenPointLists ==
    {<<>>, <<<<0, 0>>, <<4, 0>>>>, <<<<0, 0>>, <<4, 0>>, <<2, 3>>>>,
     <<<<1, 1>>, <<1, 1>>, <<1, 1>>, <<1, 1>>>>,
     <<<<1, 2>>, <<4, 2>>, <<4, 6>>, <<1, 6>>>>}

GivenCoordinates == GivenBoxes \cup {Points(ps) : ps \in GivenPointLists}

\* a region element with the custom attribute annotation_type:<type>
TypedRegion(annotation_type, points) ==
    [GoodRegion EXCEPT !.custom = <<"annotation_type", ":">> \o annotation_type,
                       !.points = points]

CreateAnnotation ==
    /\ call.op = "AnnotationViewSet.create"
    /\ Return_(AnnotationCreate(call.args))

ImportAnnotationFromJson ==
    /\ call.op = "_import_project_from_json"
    /\ Return_(<<ImportAnnotationJson(call.args)>>)

ImportAnnotationFromPageXml ==
    /\ call.op = "_import_annotations_from_pagexml"
    /\ Return_(_import_annotations_from_pagexml(call.args))

(***************************************************************************)
(* The OCR backends: the JSON a backend answers, json.loads, and the three  *)
(* adapters of OCRService                                                   *)
(***************************************************************************)
\* A Python str is a sequence of tokens: punctuation, quoted strings, blanks
\* and plain words.  A JSON value is a tagged record; a dict is a function
\* from its keys, none of which is a tag.
JsonStr(s) == [str |-> s]

EmptyDict == [k \in {} |-> JsonNull]

IsStr(v) == DOMAIN v = {"str"}

IsDict(v) == DOMAIN v \cap {"str", "null", "list", "num"} = {}

\* d[key] = value
Put(d, key, value) ==
    [k \in DOMAIN d \cup {key} |-> IF k = key THEN value ELSE d[k]]

\* bool(value) of None, a str or a dict
Truthy(value) ==
    IF value = JsonNull THEN FALSE
    ELSE IF IsStr(value) THEN value.str # <<>>
    ELSE DOMAIN value # {}

StringLiterals == {"\"text\"", "\"metadata\"", "\"a\""}

\* the characters between the quotes of a string literal
Unquote(literal) ==
    CASE literal = "\"text\"" -> "text"
      [] literal = "\"metadata\"" -> "metadata"
      [] literal = "\"a\"" -> "a"

\* the first position from i on that holds no blank
RECURSIVE SkipWs(_, _)
SkipWs(s, i) ==
    IF i <= Len(s) /\ s[i] = " " THEN SkipWs(s, i + 1) ELSE i

NoParse == [ok |-> FALSE, value |-> JsonNull, next |-> 0]

Parsed(value, next) == [ok |-> TRUE, value |-> value, next |-> next]

\* the JSON value that starts at position i: a string or an object
RECURSIVE ParseValue(_, _), ParseMembers(_, _, _)
ParseValue(s, i) ==
    LET j == SkipWs(s, i)
    IN IF j > Len(s) THEN NoParse
       ELSE IF s[j] \in StringLiterals
       THEN Parsed(JsonStr(<<Unquote(s[j])>>), j + 1)
       ELSE IF s[j] = "{"
       THEN LET k == SkipWs(s, j + 1)
            IN IF k <= Len(s) /\ s[k] = "}" THEN Parsed(EmptyDict, k + 1)
               ELSE ParseMembers(s, k, EmptyDict)
       ELSE NoParse

\* the members of an object from position i on, up to its closing brace
ParseMembers(s, i, members) ==
    LET j == SkipWs(s, i)
    IN IF j > Len(s) \/ s[j] \notin StringLiterals THEN NoParse
       ELSE LET c == SkipWs(s, j + 1)
            IN IF c > Len(s) \/ s[c] # ":" THEN NoParse
               ELSE LET v == ParseValue(s, c + 1)
                    IN IF ~v.ok THEN NoParse
                       ELSE LET d == Put(members, Unquote(s[j]), v.value)
                                e == SkipWs(s, v.next)
                            IN IF e > Len(s) THEN NoParse
                               ELSE IF s[e] = "}" THEN Parsed(d, e + 1)
                               ELSE IF s[e] = ","
                               THEN ParseMembers(s, e + 1, d)
                               ELSE NoParse

\* json.loads(s): ok is FALSE when it raises json.JSONDecodeError
json_loads(s) ==
    LET v == ParseValue(s, 1)
    IN IF v.ok /\ SkipWs(s, v.next) > Len(s) THEN v ELSE NoParse

\* s.strip().startswith('{')
StartsWithBrace(s) ==
    LET j == SkipWs(s, 1) IN j <= Len(s) /\ s[j] = "{"

\* word in s, for a str s: one of the tokens of s is the word
HasWord(s, word) == \E i \in 1..Len(s) : s[i] = word

\* what a call of an adapter gives: the dict it returns or the exception
\* it raises
Raised(error) == [raised |-> TRUE, error |-> error]

TranscriptionResult(text, metadata, confidence) ==
    [raised |-> FALSE, text |-> text, metadata |-> metadata,
     confidence |-> confidence]

\* a dict that the JSON schema of a structured output is
SchemaGiven == [type |-> JsonStr(<<"object">>)]

\* the except clause of the structured parse: json.JSONDecodeError is
\* caught and the content is the text
DecodeErrorEscapes(content) == Raised("JSONDecodeError")

FallbackToPlainText(content) ==
    TranscriptionResult(content, EmptyDict, JsonNull)

_transcribe_with_openai(api_key, use_structured_output, metadata_schema, response) ==
    IF ~Truthy(api_key) THEN Raised("ValueError")
    ELSE IF response.raises THEN Raised("RequestException")
    ELSE IF response.status_code # 200 THEN Raised("Exception")
    ELSE LET result == response.json
         IN IF "choices" \in DOMAIN result /\ Len(result["choices"]) > 0
            THEN LET content == result["choices"][1]["message"]["content"]
                 IN IF use_structured_output /\ Truthy(metadata_schema)
                    THEN IF ~IsStr(content) THEN Raised("TypeError")
                         ELSE LET parsed == json_loads(content.str)
                              IN IF ~parsed.ok
                                 THEN FallbackToPlainText(content)
                                 ELSE IF ~IsDict(parsed.value)
                                 THEN Raised("AttributeError")
                                 ELSE TranscriptionResult(
                                         Get(parsed.value, "text",
                                             JsonStr(<<>>)),
                                         Get(parsed.value, "metadata",
                                             EmptyDict),
                                         JsonNull)
                    ELSE TranscriptionResult(content, EmptyDict, JsonNull)
            ELSE TranscriptionResult(JsonStr(<<>>), EmptyDict, JsonNull)

\* the loop over candidate['content']['parts']: acc is what the parts before
\* position i left in text_content and metadata
RECURSIVE VertexParts(_, _, _, _)
VertexParts(parts, i, expected_metadata, acc) ==
    IF i > Len(parts) \/ acc.raised THEN acc
    ELSE IF "text" \notin DOMAIN parts[i]
    THEN VertexParts(parts, i + 1, expected_metadata, acc)
    ELSE LET content == parts[i]["text"]
             plain == [acc EXCEPT !.text = content]
             next ==
                IF expected_metadata # <<>>
                THEN IF ~IsStr(content) THEN Raised("AttributeError")
                     ELSE IF StartsWithBrace(content.str)
                     THEN LET parsed == json_loads(content.str)
                          IN IF ~parsed.ok THEN plain
                             ELSE IF /\ "text" \in DOMAIN parsed.value
                                     /\ "metadata" \in DOMAIN parsed.value
                             THEN [acc EXCEPT
                                      !.text = parsed.value["text"],
                                      !.metadata = parsed.value["metadata"]]
                             ELSE plain
                     ELSE plain
                ELSE plain
         IN VertexParts(parts, i + 1, expected_metadata, next)

_transcribe_with_vertex(access_token, project_id, location, expected_metadata, response) ==
    IF ~(Truthy(access_token) /\ Truthy(project_id) /\ Truthy(location))
    THEN Raised("ValueError")
    ELSE IF response.raises THEN Raised("RequestException")
    ELSE IF response.status_code # 200 THEN Raised("Exception")
    ELSE LET result == response.json
             empty == TranscriptionResult(JsonStr(<<>>), EmptyDict, JsonNull)
         IN IF "candidates" \in DOMAIN result
               /\ Len(result["candidates"]) > 0
            THEN LET candidate == result["candidates"][1]
                 IN IF /\ "content" \in DOMAIN candidate
                       /\ "parts" \in DOMAIN candidate["content"]
                    THEN VertexParts(candidate["content"]["parts"], 1,
                                     expected_metadata, empty)
                    ELSE empty
            ELSE empty

\* the confidence of a custom endpoint's answer; on a bare string the test
\* 'confidence' in result is a substring test and result['confidence'] raises
CustomConfidence(result, answer) ==
    IF IsDict(result)
    THEN [answer EXCEPT !.confidence =
             IF "confidence" \in DOMAIN result THEN result["confidence"]
             ELSE IF "score" \in DOMAIN result THEN result["score"]
             ELSE JsonNull]
    ELSE IF HasWord(result.str, "confidence") \/ HasWord(result.str, "score")
    THEN Raised("TypeError")
    ELSE answer

_transcribe_with_custom_endpoint(expected_metadata, response) ==
    IF response.raises THEN Raised("RequestException")
    ELSE IF response.status_code # 200 THEN Raised("Exception")
    ELSE LET result == response.json
         IN IF /\ IsDict(result)
               /\ "text" \in DOMAIN result
               /\ "metadata" \in DOMAIN result
            THEN CustomConfidence(result,
                    TranscriptionResult(result["text"], result["metadata"],
                                        JsonNull))
            ELSE IF /\ IsDict(result)
                    /\ DOMAIN result
                          \cap {"text", "transcription", "content"} # {}
            THEN LET text_content ==
                        IF "text" \in DOMAIN result THEN result["text"]
                        ELSE IF "transcription" \in DOMAIN result
                        THEN result["transcription"]
                        ELSE result["content"]
                     plain == TranscriptionResult(text_content, EmptyDict,
                                                  JsonNull)
                 IN IF expected_metadata # <<>>
                    THEN IF ~IsStr(text_content)
                         THEN Raised("AttributeError")
                         ELSE IF StartsWithBrace(text_content.str)
                         THEN LET parsed == json_loads(text_content.str)
                              IN IF /\ parsed.ok
                                    /\ "text" \in DOMAIN parsed.value
                                    /\ "metadata" \in DOMAIN parsed.value
                                 THEN CustomConfidence(result,
                                         TranscriptionResult(
                                            parsed.value["text"],
                                            parsed.value["metadata"],
                                            JsonNull))
                                 ELSE CustomConfidence(result, plain)
                         ELSE CustomConfidence(result, plain)
                    ELSE CustomConfidence(result, plain)
            ELSE CustomConfidence(result,
                    TranscriptionResult(
                       IF IsDict(result)
                       THEN Get(result, "result", JsonStr(<<>>))
                       ELSE result,
                       EmptyDict, JsonNull))

(***************************************************************************)
(* A transcribe-annotation call: the request serializer, the view, the      *)
(* region file and the dispatch to a backend                                *)
(***************************************************************************)
\* TranscriptionRequestSerializer.validate; attrs.get gives None for a field
\* the request leaves out
validate(attrs) ==
    /\ ~(attrs.api_endpoint = "openai" /\ ~Truthy(attrs.openai_api_key))
    /\ ~(/\ attrs.api_endpoint = "vertex"
         /\ ~(/\ Truthy(attrs.vertex_access_token)
              /\ Truthy(attrs.vertex_project_id)
              /\ Truthy(attrs.vertex_location)))

\* the keyword arguments TranscribeAnnotationView.post gives to
\* OCRService.transcribe_annotation; the parameters it does not name keep
\* their default None
ViewKwargs(validated_data) ==
    [api_endpoint |-> validated_data.api_endpoint,
     api_key |-> validated_data.openai_api_key,
     expected_metadata |-> validated_data.expected_metadata,
     use_structured_output |-> validated_data.use_structured_output,
     metadata_schema |-> validated_data.metadata_schema,
     vertex_access_token |-> JsonNull,
     vertex_project_id |-> JsonNull,
     vertex_location |-> JsonNull]

\* the path _extract_annotation_region saves the region to
temp_path == "/tmp/annotation_region_1.png"

\* the backend that transcribe_annotation calls for its api_endpoint
TranscribeRegionWith(kwargs, response) ==
    IF kwargs.api_endpoint = "openai"
    THEN _transcribe_with_openai(kwargs.api_key, kwargs.use_structured_output,
                                 kwargs.metadata_schema, response)
    ELSE IF kwargs.api_endpoint = "vertex"
    THEN _transcribe_with_vertex(kwargs.vertex_access_token,
                                 kwargs.vertex_project_id,
                                 kwargs.vertex_location,
                                 kwargs.expected_metadata, response)
    ELSE _transcribe_with_custom_endpoint(kwargs.expected_metadata, response)

\* the files left when the backend call is over: the region file is
\* removed after a result, and in the except clause before the re-raise
CleanUpAfterResultOnly(existing, region_image_path, result) ==
    IF result.raised THEN existing ELSE existing \ {region_image_path}

CleanUp(existing, region_image_path, result) ==
    IF result.raised THEN existing \ {region_image_path}
    ELSE existing \ {region_image_path}

\* what the request leaves behind: the status of its Transcription record
\* and the error it stores
ViewOutcome(result) ==
    IF result.raised
    THEN [status |-> "failed", error_message |-> result.error,
          text_content |-> JsonStr(<<>>)]
    ELSE [status |-> "completed", error_message |-> "",
          text_content |-> result.text]

OcrCall(op, args, annotation_type, response) ==
    [op |-> op, args |-> args, kwargs |-> args,
     annotation_type |-> annotation_type, response |-> response,
     pc |-> IF op = "TranscribeAnnotationView.post" THEN "request"
            ELSE "service",
     region_image_path |-> "", done |-> FALSE, result |-> <<>>]

\* the call is over with this outcome
Exit(result) ==
    call' = [call EXCEPT !.done = TRUE, !.pc = "done",
                         !.result = IF call.op = "TranscribeAnnotationView.post"
                                    THEN ViewOutcome(result) ELSE result]

\* the view validates the request and calls the service
TranscribeAnnotationViewPost ==
    /\ call.op = "TranscribeAnnotationView.post"
    /\ ~call.done
    /\ call.pc = "request"
    /\ IF validate(call.args)
       THEN call' = [call EXCEPT !.pc = "service",
                                 !.kwargs = ViewKwargs(call.args)]
       ELSE call' = [call EXCEPT !.done = TRUE, !.pc = "done",
                                 !.result = [status |-> "400"]]
    /\ UNCHANGED <<ledgerVars, codecVars, treeVars, tmpfiles>>

\* transcribe_annotation extracts the region and saves it
ExtractRegionToFile ==
    /\ call.op \in {"TranscribeAnnotationView.post",
                    "OCRService.transcribe_annotation"}
    /\ ~call.done
    /\ call.pc = "service"
    /\ IF call.annotation_type \in {"bbox", "polygon"}
       THEN /\ call' = [call EXCEPT !.pc = "extracted",
                                    !.region_image_path = temp_path]
            /\ tmpfiles' = tmpfiles \cup {temp_path}
       ELSE /\ Exit(Raised("UnboundLocalError"))
            /\ UNCHANGED tmpfiles
    /\ UNCHANGED <<ledgerVars, codecVars, treeVars>>

\* transcribe_annotation calls the backend, removes the file and exits
TranscribeRegion ==
    /\ call.op \in {"TranscribeAnnotationView.post",
                    "OCRService.transcribe_annotation"}
    /\ ~call.done
    /\ call.pc = "extracted"
    /\ LET result == TranscribeRegionWith(call.kwargs, call.response)
       IN /\ Exit(result)
          /\ tmpfiles' = CleanUp(tmpfiles, call.region_image_path, result)
    /\ UNCHANGED <<ledgerVars, codecVars, treeVars>>

(***************************************************************************)
(* The directory a bundle export writes: ExportService.export_projects_vlamy *)
(* with its file names. A file name is a sequence of characters; an         *)
(* extension after the dot is written as one element.                      *)
(***************************************************************************)
\* the characters re.sub(r'[<>:"/\\|?*]', '_', filename) replaces
InvalidChars == {"<", ">", ":", "\"", "/", "\\", "|", "?", "*"}

\* str.strip(chars)
RECURSIVE StripChars(_, _)
StripChars(str, chars) ==
    IF str # <<>> /\ Head(str) \in chars THEN StripChars(Tail(str), chars)
    ELSE IF str # <<>> /\ str[Len(str)] \in chars
    THEN StripChars(SubSeq(str, 1, Len(str) - 1), chars)
    ELSE str

\* the longest name _sanitize_filename keeps
NameLimit == 100

_sanitize_filename(filename) ==
    LET replaced == [i \in 1..Len(filename) |->
                        IF filename[i] \in InvalidChars THEN "_"
                        ELSE filename[i]]
        stripped == StripChars(replaced, {" ", "."})
        limited == IF Len(stripped) > NameLimit
                   THEN SubSeq(stripped, 1, NameLimit) ELSE stripped
    IN IF limited = <<>> THEN <<"u", "n", "n", "a", "m", "e", "d">>
       ELSE limited

\* os.path.splitext: the extension starts at the last dot, unless only dots
\* come before it
splitext(filename) ==
    LET dots == {i \in 1..Len(filename) : filename[i] = "."}
    IN IF dots = {} \/ \A i \in 1..Max(dots) : filename[i] = "."
       THEN [root |-> filename, ext |-> <<>>]
       ELSE [root |-> SubSeq(filename, 1, Max(dots) - 1),
             ext |-> SubSeq(filename, Max(dots), Len(filename))]

\* a file of the export directory: <dir>/<name> or <dir>/page/<name>, and
\* the project and image it was written for (image 0: the metadata)
File(dir, sub, name, writer) ==
    [dir |-> dir, sub |-> sub, name |-> name, writer |-> writer]

\* os.path.exists(os.path.join(project_dir, name))
Exists(fs, dir, name) ==
    \E f \in fs : f.dir = dir /\ f.sub = "" /\ f.name = name

\* open(path, 'w'): a file that is there is replaced
Write(fs, file) ==
    {f \in fs : ~(f.dir = file.dir /\ f.sub = file.sub /\ f.name = file.name)}
        \cup {file}

\* the loop that looks for a file name not taken in the project directory
RECURSIVE UniqueFilename(_, _, _, _)
UniqueFilename(fs, dir, original, counter) ==
    LET image_filename ==
           IF counter = 0 THEN original
           ELSE splitext(original).root \o <<"_">> \o IntToStr(counter)
                   \o splitext(original).ext
    IN IF Exists(fs, dir, image_filename)
       THEN UniqueFilename(fs, dir, original, counter + 1)
       ELSE image_filename

\* f"{os.path.splitext(image_filename)[0]}.xml"
PageXmlName(image_filename) == splitext(image_filename).root \o <<".", "xml">>

\* the loop over the images of a project, from image i on
RECURSIVE ExportBundleImages(_, _, _, _, _)
ExportBundleImages(fs, dir, p, images, i) ==
    IF i > Len(images) THEN fs
    ELSE LET original == IF images[i].original_filename # <<>>
                         THEN images[i].original_filename
                         ELSE images[i].name \o <<".", "jpg">>
             image_filename == UniqueFilename(fs, dir, original, 0)
             copied == Write(fs, File(dir, "", image_filename, <<p, i>>))
             written == Write(copied,
                              File(dir, "page", PageXmlName(image_filename),
                                   <<p, i>>))
         IN ExportBundleImages(written, dir, p, images, i + 1)

MetadataJson == <<"m", "e", "t", "a", "d", "a", "t", "a", ".", "json">>

\* os.path.join(temp_dir, self._sanitize_filename(project.name))
ProjectDir(projects, p) == _sanitize_filename(projects[p].name)

\* the loop over the projects, from project p on
RECURSIVE ExportBundleProjects(_, _, _)
ExportBundleProjects(fs, projects, p) ==
    IF p > Len(projects) THEN fs
    ELSE LET dir == ProjectDir(projects, p)
             images == ExportBundleImages(fs, dir, p, projects[p].images, 1)
         IN ExportBundleProjects(
               Write(images, File(dir, "", MetadataJson, <<p, 0>>)),
               projects, p + 1)

\* the set as a sequence, in some order (os.listdir gives no order)
RECURSIVE Listing(_)
Listing(S) ==
    IF S = {} THEN <<>>
    ELSE LET x == CHOOSE x \in S : TRUE IN <<x>> \o Listing(S \ {x})

\* the directories import_vlamy_zip finds in the extracted bundle: the
\* metadata.json holds the name of the project that wrote it
BundleDirectories(fs, projects) ==
    LET dirs == Listing({f.dir : f \in fs})
    IN [k \in 1..Len(dirs) |->
          LET meta == {f \in fs : /\ f.dir = dirs[k] /\ f.sub = ""
                                  /\ f.name = MetadataJson}
              images == Listing({f \in fs : /\ f.dir = dirs[k] /\ f.sub = ""
                                            /\ f.name # MetadataJson})
          IN [hasMetadata |-> meta # {},
              metadata |->
                 [name |-> projects[(CHOOSE f \in meta : TRUE).writer[1]].name,
                  description |-> <<>>],
              files |->
                 [j \in 1..Len(images) |->
                    [base |-> splitext(images[j].name).root,
                     ext |-> images[j].name[Len(images[j].name)],
                     opens |-> TRUE, width |-> 8, height |-> 6,
                     file_size |-> 9,
                     hasPageXml |->
                        \E f \in fs :
                           /\ f.dir = dirs[k] /\ f.sub = "page"
                           /\ f.name = PageXmlName(images[j].name),
                     pagexml |-> [regions |-> <<>>],
                     writer |-> images[j].writer]]]]

BundleCall(projects) ==
    [op |-> "export_projects_vlamy", args |-> projects, stage |-> "start",
     bundle |-> {}, done |-> FALSE, result |-> <<>>]

\* the export writes the directory that is zipped
ExportBundleFiles ==
    /\ call.op = "export_projects_vlamy"
    /\ call.stage = "start"
    /\ call' = [call EXCEPT !.stage = "exported",
                            !.bundle = ExportBundleProjects({}, call.args, 1)]
    /\ UNCHANGED <<ledgerVars, codecVars, treeVars, tmpfiles>>

\* the bundle is imported by another user
ImportBundleFiles ==
    /\ call.op = "export_projects_vlamy"
    /\ call.stage = "exported"
    /\ call' = [call EXCEPT
                   !.stage = "imported", !.done = TRUE,
                   !.result = import_vlamy_zip(
                                 BundleDirectories(call.bundle, call.args),
                                 {}, 1)]
    /\ UNCHANGED <<ledgerVars, codecVars, treeVars, tmpfiles>>

(***************************************************************************)
(* The image of the transcription ledger as the exports read it             *)
(***************************************************************************)
\* transcriptions.filter(is_current=True).first() on a target
CurrentTranscription(d, t) ==
    LET i == First(d, CurrentOf(d, t)) IN
    IF i = NoId THEN NoTranscription ELSE CurrentText(d[i].text_content)

\* the Annotation rows in creation order
RECURSIVE Ascending(_)
Ascending(S) ==
    IF S = {} THEN <<>>
    ELSE LET least == CHOOSE x \in S : \A y \in S : x <= y
         IN <<least>> \o Ascending(S \ {least})

RECURSIVE LedgerRows(_, _)
LedgerRows(d, rows) ==
    IF rows = <<>> THEN <<>>
    ELSE <<SourceAnnotation(BBoxShape, "MainZone", <<>>, Head(rows), <<>>,
                            CurrentTranscription(d, <<TheImage, Head(rows)>>))>>
         \o LedgerRows(d, Tail(rows))

\* the annotations of the image, each with its current transcription
LedgerAnnotations(d, ids) == LedgerRows(d, Ascending(ids))

LedgerImage(d, ids) ==
    UploadedImage(<<"i">>, 0, LedgerAnnotations(d, ids),
                  CurrentTranscription(d, <<TheImage, NoId>>))

LedgerDocument(d, ids) == DocumentRow(<<"d">>, 1, <<LedgerImage(d, ids)>>)

LedgerProject(d, ids) == ProjectRow(<<"p">>, <<LedgerDocument(d, ids)>>)

(***************************************************************************)
(* Specifications                                                           *)
(***************************************************************************)
\* no service function is being called
NoCall == [op |-> "none", args |-> <<>>, done |-> FALSE, result |-> <<>>]

NoFiles == tmpfiles = {}

CallOff == call = NoCall /\ NoFiles

Init == LedgerInit /\ CodecOff /\ TreeOff /\ CallOff

\* workers run their handlers concurrently
Next ==
    \/ \E p \in Procs : Step(p)
    \/ Atomic

Spec == Init /\ [][Next]_vars

AllIdle == \A p \in Procs : pc[p] = "idle"

\* requests are served one after the other
NextSeq ==
    \/ \E p \in Procs : (\A q \in Procs \ {p} : pc[q] = "idle") /\ Step(p)
    \/ AllIdle /\ Atomic

SpecSeq == Init /\ [][NextSeq]_vars

InitCodec == LedgerInit /\ CodecInit /\ TreeOff /\ CallOff

\* a bundle export of the image followed by the import of the bundle
NextCodec ==
    \/ ExportBundle
    \/ ImportBundle

SpecCodec == InitCodec /\ [][NextCodec]_vars

InitTree == LedgerInit /\ CodecOff /\ TreeInit /\ CallOff

\* export, import and update requests on one project
NextTree ==
    \/ \E d \in Documents : UpdateDocument(d)
    \/ \E d \in Documents : \E i \in ImagesOf(d) : ExportImageJson(d, i)
    \/ \E d \in Documents : \E i \in ImagesOf(d) : ExportImagePageXml(d, i)
    \/ \E d \in Documents : ExportDocumentJson(d)
    \/ \E d \in Documents : ExportDocumentPageXml(d)
    \/ ExportProjectJson
    \/ ExportProjectPageXml
    \/ ExportBulkJson
    \/ ExportBulkPageXml
    \/ ExportVlamy
    \/ ImportJson

SpecTree == InitTree /\ [][NextTree]_vars

\* the arguments a service function is called with
CallInit ==
    \/ \E regions \in BatchFiles :
          call = NewCall("_import_annotations_from_pagexml",
                         [regions |-> regions])
    \/ \E dir \in BatchDirectories :
          call = NewCall("import_vlamy_directory", dir)
    \/ \E dirs \in BatchBundles : call = NewCall("import_vlamy_zip", dirs)
    \/ \E data \in BatchEnvelopes : call = NewCall("import_json_export", data)

InitCall == LedgerInit /\ CodecOff /\ TreeOff /\ CallInit /\ NoFiles

NextCall ==
    \/ ImportPageXmlFile
    \/ ImportDirectory
    \/ ImportZip
    \/ ImportJsonEnvelope

SpecCall == InitCall /\ [][NextCall]_vars

\* one call of the detection service or of the region extraction
DetectInit ==
    \/ \E c \in RawClasses, f \in {"zone", "line"},
          u \in UserProfiles \cup {NoProfile} :
          call = NewCall("_map_classification",
                         [original_class |-> c, detection_type |-> f,
                          user_profile |-> u])
    \/ \E iw \in {Pixels(2), Pixels(3)}, xc \in -1..MaxPixel,
          yc \in {0, 1, 3}, w \in 0..MaxPixel, h \in {0, 1, 2},
          c \in DetectedClasses, p \in {50, 90},
          later \in SeqsUpTo(LaterPredictions, MaxDetections - 1),
          as_list \in BOOLEAN :
          LET result == WorkflowResult(iw, Pixels(2), Pixels(xc), Pixels(yc),
                                       Pixels(w), Pixels(h), c, p, later)
          IN call = NewCall("_parse_roboflow_results",
                            IF as_list THEN JsonList(<<result>>) ELSE result)
    \/ call = NewCall("_parse_roboflow_results", JsonList(<<>>))
    \/ \E x \in -2..MaxPixel, y \in -1..3, w \in 1..(MaxPixel + 1), h \in 1..3 :
          call = NewCall("_extract_annotation_region",
                         [size |-> <<4, 3>>,
                          annotation |-> BBoxAnnotation(x, y, w, h)])
    \/ call = NewCall("_extract_annotation_region",
                      [size |-> <<40, 100>>,
                       annotation |-> BBoxAnnotation(-10, 5, 50, 50)])
    \/ \E a \in PolygonAnnotations :
          call = NewCall("_extract_annotation_region",
                         [size |-> <<4, 3>>, annotation |-> a])

InitDetect == LedgerInit /\ CodecOff /\ TreeOff /\ DetectInit /\ NoFiles

NextDetect ==
    \/ MapClassification
    \/ ParseRoboflowResults
    \/ ExtractAnnotationRegion

SpecDetect == InitDetect /\ [][NextDetect]_vars

\* one request that stores annotations
StoreInit ==
    \/ \E t \in {<<"bbox">>, <<"polygon">>, <<"line">>},
          c \in GivenCoordinates :
          call = NewCall("AnnotationViewSet.create",
                         [annotation_type |-> t, coordinates |-> c])
    \/ \E t \in {<<"bbox">>, <<"polygon">>}, c \in GivenCoordinates :
          call = NewCall("_import_project_from_json",
                         [type |-> t, coordinates |-> c])
    \/ \E t \in {<<"bbox">>, <<"polygon">>}, ps \in GivenPointLists :
          call = NewCall("_import_annotations_from_pagexml",
                         [regions |-> <<TypedRegion(t, ps)>>])

InitStore == LedgerInit /\ CodecOff /\ TreeOff /\ StoreInit /\ NoFiles

NextStore ==
    \/ CreateAnnotation
    \/ ImportAnnotationFromJson
    \/ ImportAnnotationFromPageXml

SpecStore == InitStore /\ [][NextStore]_vars

\* the calls of the OCR backends
MaxContentLen == 2

ContentTokens == {"{", "}", " ", "\"text\"", "a", "confidence"}

JsonDocuments ==
    {<<"{", "\"text\"", ":", "\"a\"", "}">>,
     <<"{", "\"text\"", ":", "\"a\"", ",", "\"metadata\"", ":", "{",
       "\"a\"", ":", "\"a\"", "}", "}">>,
     <<" ", "{", "\"metadata\"", ":", "{", "}", ",", "\"text\"", ":",
       "\"text\"", "}", " ">>,
     <<"{", "\"text\"", ":", "\"a\"", ",", "}">>,
     <<"{", "\"text\"", "\"a\"", "}">>,
     <<"\"a\"">>,
     <<"a", "score">>}

Secrets == {JsonNull, JsonStr(<<>>), JsonStr(<<"secret">>)}

NoResponse == [raises |-> TRUE, status_code |-> 0, json |-> JsonNull]

Response(status_code, json) ==
    [raises |-> FALSE, status_code |-> status_code, json |-> json]

ExpectedMetadata == {<<>>, <<"date">>}

OcrInit ==
    \E c \in {JsonStr(s) : s \in SeqsUpTo(ContentTokens, MaxContentLen)
                                    \cup JsonDocuments} \cup {JsonNull},
       annotation_type \in {"bbox", "polygon", "line"},
       op \in {"TranscribeAnnotationView.post",
               "OCRService.transcribe_annotation"},
       expected_metadata \in ExpectedMetadata,
       use_structured_output \in BOOLEAN,
       metadata_schema \in {JsonNull, EmptyDict, SchemaGiven} :
       LET Args(api_endpoint, api_key, token, project, location) ==
              IF op = "OCRService.transcribe_annotation"
              THEN [api_endpoint |-> api_endpoint, api_key |-> api_key,
                    expected_metadata |-> expected_metadata,
                    use_structured_output |-> use_structured_output,
                    metadata_schema |-> metadata_schema,
                    vertex_access_token |-> token,
                    vertex_project_id |-> project,
                    vertex_location |-> location]
              ELSE [api_endpoint |-> api_endpoint,
                    openai_api_key |-> api_key,
                    expected_metadata |-> expected_metadata,
                    use_structured_output |-> use_structured_output,
                    metadata_schema |-> metadata_schema,
                    vertex_access_token |-> token,
                    vertex_project_id |-> project,
                    vertex_location |-> location]
       IN \/ \E api_key \in Secrets,
                json \in {EmptyDict, [choices |-> <<>>],
                          [choices |-> <<[message |-> [content |-> c]]>>]} :
             \E response \in {NoResponse, Response(500, JsonNull)}
                                \cup {Response(200, json)} :
                /\ expected_metadata = <<>>
                /\ call = OcrCall(op, Args("openai", api_key, JsonNull,
                                           JsonNull, JsonNull),
                                  annotation_type, response)
          \/ \E token \in Secrets,
                project \in {JsonStr(<<>>), JsonStr(<<"p">>)},
                location \in {JsonNull, JsonStr(<<"us">>)},
                later \in {<<>>, <<[inlineData |-> JsonNull]>>,
                           <<[text |-> JsonStr(<<"a">>)]>>} :
             \E json \in {EmptyDict, [candidates |-> <<>>],
                          [candidates |-> <<[finishReason |-> JsonNull]>>],
                          [candidates |->
                              <<[content |->
                                    [parts |-> <<[text |-> c]>> \o later]]>>]} :
             \E response \in {NoResponse, Response(500, JsonNull)}
                                \cup {Response(200, json)} :
                /\ ~use_structured_output
                /\ metadata_schema = JsonNull
                /\ call = OcrCall(op, Args("vertex", JsonNull, token,
                                           project, location),
                                  annotation_type, response)
          \/ \E json \in {EmptyDict, [result |-> c], [text |-> c],
                          [text |-> c, metadata |-> EmptyDict],
                          [text |-> c, metadata |-> [a |-> JsonStr(<<"a">>)],
                           score |-> [num |-> 50]],
                          [transcription |-> c],
                          [content |-> c],
                          [transcription |-> c,
                           content |-> JsonStr(<<"a">>)],
                          [text |-> c, transcription |-> JsonStr(<<"a">>),
                           confidence |-> [num |-> 90]],
                          [content |-> c, score |-> [num |-> 50]],
                          [text |-> c, confidence |-> [num |-> 90],
                           score |-> [num |-> 50]]}
                            \cup (IF IsStr(c) THEN {c} ELSE {}) :
             \E response \in {NoResponse, Response(500, JsonNull)}
                                \cup {Response(200, json)} :
                /\ ~use_structured_output
                /\ metadata_schema = JsonNull
                /\ call = OcrCall(op, Args("https://ocr.example/api",
                                           JsonNull, JsonNull, JsonNull,
                                           JsonNull),
                                  annotation_type, response)

InitOcr == LedgerInit /\ CodecOff /\ TreeOff /\ OcrInit /\ NoFiles

NextOcr ==
    \/ TranscribeAnnotationViewPost
    \/ ExtractRegionToFile
    \/ TranscribeRegion

SpecOcr == InitOcr /\ [][NextOcr]_vars

\* the bundle exports
MaxNameLen == 2

MaxProjects == 2

MaxBundleImages == 2

NameChars == {"a", ":", "_"}

\* a project name longer than NameLimit that ends with c
LongName(c) == [i \in 1..NameLimit |-> "a"] \o <<c>>

BundleImages ==
    {[name |-> <<"a">>, original_filename |-> f] :
        f \in {<<>>, <<"a", ".", "jpg">>, <<"a", ".", "png">>,
               <<"a", "_", "1", ".", "jpg">>, <<"b", ".", "jpg">>}}

BundleInit ==
    \E names \in SeqsUpTo(SeqsUpTo(NameChars, MaxNameLen)
                             \cup {LongName("b"), LongName("c")},
                          MaxProjects) \ {<<>>},
       first \in SeqsUpTo(BundleImages, MaxBundleImages),
       later \in SeqsUpTo(BundleImages, MaxBundleImages - 1) :
       call = BundleCall([p \in 1..Len(names) |->
                            [name |-> names[p],
                             images |-> IF p = 1 THEN first ELSE later]])

InitBundle == LedgerInit /\ CodecOff /\ TreeOff /\ BundleInit /\ NoFiles

NextBundle ==
    \/ ExportBundleFiles
    \/ ImportBundleFiles

SpecBundle == InitBundle /\ [][NextBundle]_vars

(***************************************************************************)
(* Properties of the Transcription ledger                                  *)
(***************************************************************************)
NumCurrent(d, t) == Cardinality(CurrentOf(d, t))

\* the step completes a save() of worker p: its INSERT or UPDATE was written
SaveCompletes(p) ==
    /\ pc[p] \in {"create_insert", "done_write", "fail_write"}
    /\ db' # db

\* C1: when requests are served one after the other, every save of a
\* Transcription with is_current = true (the create of a transcribe, revert
\* or import request, and the later save of the transcribe request) leaves
\* exactly one current Transcription on the saved record's target.
C1_OneCurrentAfterCreate ==
    [][\A p \in Procs :
          SaveCompletes(p) => NumCurrent(db', Target(inst[p])) = 1]_vars

\* a target holds three records after sequential creates, one of them current
C1_Witness ==
    /\ AllIdle
    /\ \E t \in Targets : /\ Cardinality(RowsOf(db, t)) >= 3
                          /\ NumCurrent(db, t) = 1

\* C2: in no reachable state of concurrently running creates does a target
\* have two Transcriptions with is_current = true.
C2_AtMostOneCurrent ==
    \A t \in Targets : NumCurrent(db, t) <= 1

\* C3: while a create runs on a target that had a current Transcription, the
\* current-transcription query of a concurrent reader never finds the target
\* without a current record.
C3_ReaderSeesCurrent ==
    \A t \in Targets : InCreateWindow(t) => get_current(t) # NoId

\* C4: within one target, versions are strictly increasing in creation
\* order, so no two records of a target share a version.
C4_VersionsIncrease ==
    \A t \in Targets : \A i, j \in RowsOf(db, t) :
        i < j => db[i].version < db[j].version

\* the largest version among the rows of target t
MaxVersion(d, t) ==
    IF RowsOf(d, t) = {} THEN 0
    ELSE LET top == CHOOSE i \in RowsOf(d, t) :
                       \A j \in RowsOf(d, t) : d[i].version >= d[j].version
         IN d[top].version

\* C5: no step of a revert request changes the version or is_current of a
\* record that exists, and the record it appends has version max + 1 over the
\* target's existing records.
C5_RevertOnlyAppends ==
    [][\A p \in Procs : handler[p] = "revert" =>
          /\ \A i \in Rows : /\ db'[i].version = db[i].version
                             /\ db'[i].is_current = db[i].is_current
          /\ nextId' = nextId + 1 =>
                db'[nextId'].version = MaxVersion(db, Target(inst[p])) + 1]_vars

\* C6: a revert request inserts exactly one row, on the target and with the
\* transcription_type and text_content of the reverted row, with the
\* reverted row as parent and is_current = true; the reverted row keeps its
\* text_content, status and parent.
C6_RevertCopies ==
    [][\A p \in Procs : handler[p] = "revert" =>
          LET src == inst[p].parent_transcription
              new == nextId + 1
          IN IF pc[p] = "create_insert"
             THEN /\ nextId' = new
                  /\ {i \in TranscriptionIds : db'[i] # NoRow} = Rows \cup {new}
                  /\ src \in Rows
                  /\ Target(db'[new]) = Target(db[src])
                  /\ db'[new].transcription_type = db[src].transcription_type
                  /\ db'[new].text_content = db[src].text_content
                  /\ db'[new].parent_transcription = src
                  /\ db'[new].is_current
                  /\ db'[src].text_content = db[src].text_content
                  /\ db'[src].status = db[src].status
                  /\ db'[src].parent_transcription = db[src].parent_transcription
             ELSE {i \in TranscriptionIds : db'[i] # NoRow} = Rows]_vars

\* a completed transcription with text has been reverted: the copy is current
C6_Witness ==
    \E i, j \in Rows : /\ db[j].parent_transcription = i
                       /\ db[i].status = "completed"
                       /\ db[i].text_content = <<"a">>
                       /\ db[j].text_content = <<"a">>
                       /\ db[j].is_current
                       /\ ~db[i].is_current

\* C7: when a transcribe request returns, its record exists and is completed
\* or failed, and a failed record carries a non-empty error_message.
C7_NeverLeftProcessing ==
    [][\A p \in Procs :
          (/\ handler[p] \in {"transcribe_image", "transcribe_annotation"}
           /\ pc[p] # "idle"
           /\ pc'[p] = "idle")
          => /\ inst[p].id \in TranscriptionIds
             /\ db'[inst[p].id] # NoRow
             /\ db'[inst[p].id].status \in {"completed", "failed"}
             /\ db'[inst[p].id].status = "failed" =>
                    db'[inst[p].id].error_message # <<>>]_vars

(***************************************************************************)
(* Properties of the PageXML round trip                                    *)
(***************************************************************************)
AnyOf(str, chars) == \E i \in 1..Len(str) : str[i] \in chars

\* label, metadata keys and metadata values hold none of `chars`
FieldsFreeOf(a, chars) ==
    /\ ~AnyOf(a.label, chars)
    /\ \A i \in 1..Len(a.metadata) :
          /\ ~AnyOf(a.metadata[i].key, chars)
          /\ ~AnyOf(a.metadata[i].value.str, chars)

StringValued(a) ==
    \A i \in 1..Len(a.metadata) : a.metadata[i].value.kind = "str"

HasText(a) == a.transcription.exists /\ a.transcription.text_content # <<>>

\* C8: a bbox annotation classified MainZone, with string metadata and no
\* ';' or ':' in label, keys or values, and with a current transcription of
\* non-empty text, comes back from bundle export and import as one annotation
\* with the same annotation_type, classification, label, reading_order,
\* metadata, bbox and current transcription text.
C8_MainZoneBBoxRoundTrip ==
    (/\ stage = "imported"
     /\ Len(image.annotations) = 1
     /\ image.annotations[1].annotation_type = <<"bbox">>
     /\ image.annotations[1].classification = <<"MainZone">>
     /\ FieldsFreeOf(image.annotations[1], {";", ":"})
     /\ StringValued(image.annotations[1])
     /\ HasText(image.annotations[1]))
    => /\ Len(imported) = 1
       /\ imported[1].annotation_type = image.annotations[1].annotation_type
       /\ imported[1].classification = image.annotations[1].classification
       /\ imported[1].label = image.annotations[1].label
       /\ imported[1].reading_order = image.annotations[1].reading_order
       /\ Items(imported[1].metadata) = Items(image.annotations[1].metadata)
       /\ imported[1].coordinates = image.annotations[1].coordinates
       /\ imported[1].transcription = image.annotations[1].transcription

\* an annotation whose label, metadata and text the custom attribute string
\* and the XML text carry unchanged: no ';', ':' or '&', string values, text
\* without surrounding whitespace
Plain(a) ==
    /\ FieldsFreeOf(a, {";", ":", "&"})
    /\ StringValued(a)
    /\ ~AnyOf(a.transcription.text_content, {"&"})
    /\ Strip(a.transcription.text_content) = a.transcription.text_content

\* C9: an annotation classified with any built-in zone or line code comes
\* back from bundle export and import as exactly one annotation with the same
\* annotation_type, classification, label and reading_order and, when it had
\* a current transcription with non-empty text, the same current text.
C9_EveryCodeRoundTrip ==
    (/\ stage = "imported"
     /\ Len(image.annotations) = 1
     /\ Plain(image.annotations[1]))
    => /\ Len(imported) = Len(image.annotations)
       /\ imported[1].annotation_type = image.annotations[1].annotation_type
       /\ imported[1].classification = image.annotations[1].classification
       /\ imported[1].label = image.annotations[1].label
       /\ imported[1].reading_order = image.annotations[1].reading_order
       /\ HasText(image.annotations[1]) =>
             imported[1].transcription = image.annotations[1].transcription

\* C10: every label and every metadata map of string keys to scalar values,
\* with ';' or ':' in them and with numbers or booleans as values, comes back
\* from export and import as the same label and an equal metadata map. (Stated
\* for annotations whose region tag the import walks and whose file parses.)
C10_LabelAndMetadataRoundTrip ==
    (/\ stage = "imported"
     /\ Len(image.annotations) = 1
     /\ Len(imported) = 1)
    => /\ imported[1].label = image.annotations[1].label
       /\ Items(imported[1].metadata) = Items(image.annotations[1].metadata)


(***************************************************************************)
(* Properties of the JSON and PageXML exports and of the JSON import        *)
(***************************************************************************)
\* the text of a current transcription that has one, the empty text otherwise
TextOf(t) == IF t.exists THEN t.text_content ELSE <<>>

AnnotationContent(a) ==
    [annotation_type |-> a.annotation_type,
     classification |-> a.classification,
     coordinates |-> a.coordinates,
     label |-> a.label,
     reading_order |-> a.reading_order,
     metadata |-> Items(a.metadata),
     text |-> TextOf(a.transcription)]

ImageContent(img) ==
    LET anns == annotations_all(img) IN
    [name |-> img.name, width |-> img.width, height |-> img.height,
     order |-> img.order,
     annotations |-> [i \in 1..Len(anns) |-> AnnotationContent(anns[i])],
     text |-> TextOf(img.transcription)]

DocumentContent(document) ==
    LET imgs == images_by_order(document) IN
    [name |-> document.name,
     images |-> [i \in 1..Len(imgs) |-> ImageContent(imgs[i])]]

DocumentsContent(project) ==
    {DocumentContent(project.documents[i]) : i \in 1..Len(project.documents)}

Placeholders(project) ==
    \A d \in 1..Len(project.documents) :
        \A i \in 1..Len(project.documents[d].images) :
            project.documents[d].images[i].file_size = 0

\* C11: the import of the file of a single-project JSON export, and of a
\* bulk JSON export of the project, does not fail and creates one project
\* with the same documents, the same images as placeholders of file_size 0,
\* the same annotations (type, classification, coordinates, label,
\* reading_order, metadata) and the same non-empty current texts.
C11_JsonImportReconstructs ==
    reimported.from \in {"project_json", "bulk_json"}
    => /\ ~reimported.raised
       /\ Len(reimported.projects) = 1
       /\ Len(reimported.projects[1].documents) = Len(tree.documents)
       /\ DocumentsContent(reimported.projects[1]) = DocumentsContent(tree)
       /\ Placeholders(reimported.projects[1])

(***************************************************************************)
(* Properties of the batch imports                                          *)
(***************************************************************************)
Count(seq, Test(_)) == Cardinality({i \in 1..Len(seq) : Test(seq[i])})

\* C12: an import passes over a malformed item and imports the rest of the
\* batch: every well-formed region of a PageXML file beside a malformed one,
\* every readable image of a project beside an unreadable one, and every
\* sound project of a bundle or of a JSON envelope beside one that fails.
C12_MalformedItemSkipped ==
    call.done =>
       /\ call.op = "_import_annotations_from_pagexml" =>
             Len(call.result) =
                Count(call.args.regions, LAMBDA r : r = GoodRegion)
       /\ call.op = "import_vlamy_directory" =>
             /\ ~call.result.raised
             /\ Len(call.result.project.documents[1].images) =
                   Count(call.args.files, LAMBDA f : f.opens)
       /\ call.op = "import_vlamy_zip" =>
             Len(call.result) =
                Count(call.args, LAMBDA dir : "name" \in DOMAIN dir.metadata)
       /\ call.op = "import_json_export" =>
             Len(call.result.projects) =
                Count(call.args.projects, LAMBDA pd : "name" \in DOMAIN pd)


\* the image a single-image export was asked for
ExportedImage == tree.documents[artifact.of[1]].images[artifact.of[2]]

TextRegions(page) ==
    {r \in 1..Len(page.regions) : page.regions[r].tag = "TextRegion"}

\* C13: the PageXML export of an image that has exactly one bbox annotation
\* classified MainZone with current transcription text T, and no full-image
\* transcription, has exactly one TextRegion, and that TextRegion holds a
\* TextLine/TextEquiv/Unicode node whose text is T.
C13_ImagePageXmlOneTextRegion ==
    (/\ artifact.kind = "image_pagexml"
     /\ ~ExportedImage.transcription.exists
     /\ Len(ExportedImage.annotations) = 1
     /\ ExportedImage.annotations[1].annotation_type = <<"bbox">>
     /\ ExportedImage.annotations[1].classification = <<"MainZone">>
     /\ HasText(ExportedImage.annotations[1]))
    => /\ Len(artifact.data.pages) = 1
       /\ Cardinality(TextRegions(artifact.data.pages[1])) = 1
       /\ \A r \in TextRegions(artifact.data.pages[1]) :
             /\ artifact.data.pages[1].regions[r].hasTextLine
             /\ XmlDecode(artifact.data.pages[1].regions[r].unicode, FALSE).str
                   = ExportedImage.annotations[1].transcription.text_content

\* the document a document export was asked for
ExportedDocument == tree.documents[artifact.of[1]]

\* every Page is the page of the image at its position and has one region
\* per annotation of that image
PagesOfImages(pages, imgs) ==
    /\ Len(pages) = Len(imgs)
    /\ \A i \in 1..Len(imgs) :
          i <= Len(pages) =>
             /\ pages[i].imageFilename = imgs[i].original_filename
             /\ pages[i].imageWidth = imgs[i].width
             /\ pages[i].imageHeight = imgs[i].height
             /\ Len(pages[i].regions) = Len(imgs[i].annotations)

\* C14: the PageXML export of a document has one Page per image of the
\* document, and the PageXML export of a project one Page per image of the
\* project; each Page carries the image's imageFilename, imageWidth and
\* imageHeight and holds one region element per annotation of the image.
C14_OnePagePerImage ==
    /\ artifact.kind = "document_pagexml" =>
          PagesOfImages(artifact.data.pages, images_by_order(ExportedDocument))
    /\ artifact.kind \in {"project_pagexml", "bulk_pagexml"} =>
          PagesOfImages(artifact.data.pages, ImagesInExportOrder(tree))
(***************************************************************************)
(* Properties of the exported transcription entries                         *)
(***************************************************************************)
\* the entry carries the key 'transcription'; its value is null when the
\* target has no current row and, when it has exactly one, an object with
\* that row's text
EntryOf(entry, t) ==
    LET current == CurrentOf(db, t)
    IN /\ "transcription" \in DOMAIN entry
       /\ entry.transcription = JsonNull <=> current = {}
       /\ \A i \in current :
             Cardinality(current) = 1 =>
                /\ "text" \in DOMAIN entry.transcription
                /\ entry.transcription.text = db[i].text_content

\* the image entry and the annotation entries of an exported image
ImageEntryOf(entry) ==
    /\ EntryOf(entry, <<TheImage, NoId>>)
    /\ Len(entry.annotations) = Cardinality(annotations)
    /\ \A k \in 1..Len(entry.annotations) :
          LET annotation == entry.annotations[k]
          IN EntryOf(annotation, <<TheImage, annotation.reading_order>>)

\* C15: in the image, document, project and bulk JSON exports every image
\* entry and every annotation entry has the key 'transcription'; its value is
\* null exactly when the target has no current transcription and otherwise
\* an object whose text is the text_content of the current transcription.
C15_TranscriptionKeyNullOrCurrent ==
    LET project == LedgerProject(db, annotations)
        document == project.documents[1]
    IN /\ ImageEntryOf(_export_image_json(project, document,
                                           document.images[1]))
       /\ ImageEntryOf(_export_document_json(project, document).images[1])
       /\ ImageEntryOf(_export_project_json(project).documents[1].images[1])
       /\ ImageEntryOf(export_projects_bulk(<<project>>)
                           .projects[1].documents[1].images[1])

\* the image has a current transcription and one of its annotations has none
C15_Witness ==
    /\ AllIdle
    /\ CurrentOf(db, <<TheImage, NoId>>) # {}
    /\ \E a \in annotations : CurrentOf(db, <<TheImage, a>>) = {}
    /\ \E a \in annotations : CurrentOf(db, <<TheImage, a>>) # {}

(***************************************************************************)
(* Properties of the order of the exported entries                          *)
(***************************************************************************)
NonDecreasing(seq) ==
    \A i, j \in 1..Len(seq) : i < j => seq[i] <= seq[j]

\* the image entries are listed by order ascending and the annotation
\* entries of each by reading_order ascending
ImageEntriesOrdered(images) ==
    /\ NonDecreasing([i \in 1..Len(images) |-> images[i].order])
    /\ \A i \in 1..Len(images) :
          NonDecreasing([k \in 1..Len(images[i].annotations) |->
                            images[i].annotations[k].reading_order])

\* the document entries are the project's documents in creation order
DocumentEntriesOrdered(documents) ==
    /\ [i \in 1..Len(documents) |-> documents[i].name]
          = [i \in 1..Len(tree.documents) |-> tree.documents[i].name]
    /\ \A i \in 1..Len(documents) : ImageEntriesOrdered(documents[i].images)

\* the files of the project's images: documents in creation order, the
\* images of each by order ascending
FilesInCreationOrder ==
    Flatten([d \in 1..Len(tree.documents) |->
                [i \in 1..Len(tree.documents[d].images) |->
                    images_by_order(tree.documents[d])[i].original_filename]])

\* C16: every export lists the project's documents in creation order, the
\* images of each document by order ascending and the annotations of each
\* image by reading_order ascending, whatever documents were saved again
\* after their creation.
C16_ExportOrder ==
    /\ artifact.kind = "image_json" =>
          NonDecreasing([k \in 1..Len(artifact.data.annotations) |->
                            artifact.data.annotations[k].reading_order])
    /\ artifact.kind = "document_json" =>
          ImageEntriesOrdered(artifact.data.images)
    /\ artifact.kind = "project_json" =>
          DocumentEntriesOrdered(artifact.data.documents)
    /\ artifact.kind = "bulk_json" =>
          DocumentEntriesOrdered(artifact.data.projects[1].documents)
    /\ artifact.kind = "bulk_pagexml" =>
          [i \in 1..Len(artifact.data.pages) |->
              artifact.data.pages[i].imageFilename] = FilesInCreationOrder
    /\ artifact.kind = "vlamy" =>
          [i \in 1..Len(artifact.data) |-> artifact.data[i].filename]
             = FilesInCreationOrder

(***************************************************************************)
(* Properties of the classification mapper                                  *)
(***************************************************************************)
BuiltIn(raw_code, family) ==
    raw_code \in (IF family = "zone" THEN zone_values ELSE line_values)

\* the user's custom_detection_mappings has an entry for the code
HasEntry(user, raw_code) ==
    /\ user # NoProfile
    /\ raw_code \in DOMAIN user.custom_detection_mappings

\* the entry is not the empty string
HasNonEmptyEntry(user, raw_code) ==
    /\ HasEntry(user, raw_code)
    /\ user.custom_detection_mappings[raw_code] # <<>>

InEnabledZones(user, raw_code, family) ==
    /\ user # NoProfile
    /\ family = "zone"
    /\ \E i \in DOMAIN user.enabled_zone_types :
          user.enabled_zone_types[i] = raw_code

\* the result of the first matching rule, where rule (2) applies to the
\* codes that Present holds of
FirstMatch(raw_code, family, user, Present(_, _)) ==
    LET fallback == IF family = "zone" THEN zone_mappings ELSE line_mappings
        form == Replace(Lower(raw_code), " ", <<"_">>)
    IN CASE BuiltIn(raw_code, family) -> raw_code
         [] ~BuiltIn(raw_code, family) /\ Present(user, raw_code) ->
               user.custom_detection_mappings[raw_code]
         [] ~BuiltIn(raw_code, family) /\ ~Present(user, raw_code)
               /\ InEnabledZones(user, raw_code, family) -> raw_code
         [] OTHER ->
               IF form \in DOMAIN fallback THEN fallback[form]
               ELSE IF family = "zone"
                    THEN <<"C", "u", "s", "t", "o", "m", "Z", "o", "n", "e">>
                    ELSE <<"D", "e", "f", "a", "u", "l", "t", "L", "i", "n", "e">>

GivenPredictions ==
    (IF "list" \in DOMAIN call.args THEN call.args.list[1] ELSE call.args)
        .predictions.predictions

GivenImage ==
    (IF "list" \in DOMAIN call.args THEN call.args.list[1] ELSE call.args)
        .predictions.image

ParsedResponse ==
    /\ call.done
    /\ call.op = "_parse_roboflow_results"
    /\ ~call.result.raised

\* the draft is the draft of the detection: it carries the detection's raw
\* class name and confidence
DraftOf(draft, prediction) ==
    /\ draft.original_class = Get(prediction, "class", <<"U", "n", "k", "n", "o", "w", "n">>)
    /\ draft.confidence = Get(prediction, "confidence", 0)

\* the code the draft's class name resolves to for a user
ResolvedClass(prediction, user) ==
    LET raw == Get(prediction, "class", <<"U", "n", "k", "n", "o", "w", "n">>)
        width == Get(prediction, "width", 0)
        height == Get(prediction, "height", 0)
        family == _classify_detection_type(raw, AspectRatio(width, height))
    IN _map_classification(raw, family, user)

\* C18: the normalizer returns one draft per detection, in detector order;
\* each draft carries the detection's raw class name and confidence, and its
\* classification is the ontology code that the raw class name resolves to,
\* with the requesting user's overrides, in the family (zone or line) the
\* detection is classified as.
C18_DraftsResolved ==
    ParsedResponse =>
       /\ Len(call.result.detections) = Len(GivenPredictions)
       /\ \A i \in 1..Len(GivenPredictions) :
             i <= Len(call.result.detections) =>
                /\ DraftOf(call.result.detections[i], GivenPredictions[i])
                /\ \A user \in UserProfiles \cup {NoProfile} :
                      call.result.detections[i].classification =
                         ResolvedClass(GivenPredictions[i], user)

\* the side [start, start + extent] of the detection's box cut to the
\* image's side [0, limit] is the side [left, left + length]
SideClipped(left, length, start, extent, limit) ==
    /\ left >= 0
    /\ length >= 0
    /\ left + length <= limit
    /\ Max({0, start}) <= Min({limit, start + extent}) =>
          /\ left = Max({0, start})
          /\ left + length = Min({limit, start + extent})
    /\ Max({0, start}) > Min({limit, start + extent}) => length = 0

\* C19: the box of every draft lies inside the image (x >= 0, y >= 0,
\* width >= 0, height >= 0, x + width <= image_width, y + height <=
\* image_height) and is the intersection of the detection's box, given by
\* its centre, width and height, with the image's rectangle.
C19_BoxClippedToImage ==
    ParsedResponse =>
       \A i \in 1..Len(GivenPredictions) :
          LET box == call.result.detections[i].coordinates
              width == Get(GivenPredictions[i], "width", 0)
              height == Get(GivenPredictions[i], "height", 0)
          IN /\ SideClipped(box.x, box.width,
                            Get(GivenPredictions[i], "x", 0) - (width \div 2),
                            width, GivenImage.width)
             /\ SideClipped(box.y, box.height,
                            Get(GivenPredictions[i], "y", 0) - (height \div 2),
                            height, GivenImage.height)

(***************************************************************************)
(* Properties of the extracted region                                       *)
(***************************************************************************)
\* C20: the region extracted for a bbox annotation is the intersection of
\* [x, x + width] x [y, y + height] with the image: a box that starts at a
\* negative coordinate or reaches beyond the image's size is clipped, and
\* the call does not fail.
C20_BBoxRegionClipped ==
    /\ call.done
    /\ call.op = "_extract_annotation_region"
    /\ call.args.annotation.annotation_type = "bbox"
    => LET c == call.args.annotation.coordinates
           size == call.args.size
       IN /\ ~call.result.raised
          /\ Max({0, c.x}) < Min({size[1], c.x + c.width})
                /\ Max({0, c.y}) < Min({size[2], c.y + c.height})
             => call.result.box =
                   <<Max({0, c.x}), Max({0, c.y}),
                     Min({size[1], c.x + c.width}),
                     Min({size[2], c.y + c.height})>>

(***************************************************************************)
(* Properties of the stored annotations                                     *)
(***************************************************************************)
\* the geometry is valid for the annotation's type
ValidGeometry(annotation) ==
    /\ annotation.annotation_type \in {<<"bbox">>, <<"polygon">>}
    /\ annotation.annotation_type = <<"bbox">> =>
          /\ annotation.coordinates.shape = "bbox"
          /\ annotation.coordinates.x >= 0
          /\ annotation.coordinates.y >= 0
          /\ annotation.coordinates.width > 0
          /\ annotation.coordinates.height > 0
    /\ annotation.annotation_type = <<"polygon">> =>
          /\ annotation.coordinates.shape = "points"
          /\ Len(annotation.coordinates.points) >= 3

StoreCalls ==
    {"AnnotationViewSet.create", "_import_project_from_json",
     "_import_annotations_from_pagexml"}

\* C21: every annotation that a creation path stores (API create, JSON
\* import, PageXML import) has geometry valid for its type: a bbox has x, y
\* >= 0 and width, height > 0, a polygon has at least 3 points; a degenerate
\* or mismatched region is rejected when the annotation is created.
C21_StoredGeometryValid ==
    call.done /\ call.op \in StoreCalls =>
       \A i \in 1..Len(call.result) : ValidGeometry(call.result[i])


(***************************************************************************)
(* Properties of the OCR backends                                          *)
(***************************************************************************)
\* the call went through OCRService.transcribe_annotation to a backend that
\* answered 200
Answered ==
    /\ call.op = "OCRService.transcribe_annotation"
    /\ call.done
    /\ call.region_image_path # ""
    /\ ~call.response.raises
    /\ call.response.status_code = 200

\* the backend is configured for structured output
Structured ==
    IF call.kwargs.api_endpoint = "openai"
    THEN /\ call.kwargs.use_structured_output
         /\ Truthy(call.kwargs.metadata_schema)
    ELSE call.kwargs.expected_metadata # <<>>

\* the bodies the backend returned: the content of the first choice, the
\* text of the one text part, the text field of the custom answer
Bodies ==
    LET json == call.response.json
    IN IF call.kwargs.api_endpoint = "openai"
       THEN IF Truthy(call.kwargs.api_key) /\ "choices" \in DOMAIN json
               /\ json["choices"] # <<>>
            THEN {json["choices"][1]["message"]["content"]}
            ELSE {}
       ELSE IF call.kwargs.api_endpoint = "vertex"
       THEN IF /\ Truthy(call.kwargs.vertex_access_token)
               /\ Truthy(call.kwargs.vertex_project_id)
               /\ Truthy(call.kwargs.vertex_location)
               /\ "candidates" \in DOMAIN json
               /\ json["candidates"] # <<>>
               /\ "content" \in DOMAIN json["candidates"][1]
            THEN LET parts == json["candidates"][1]["content"]["parts"]
                 IN IF \A i \in 2..Len(parts) : "text" \notin DOMAIN parts[i]
                    THEN {parts[1]["text"]}
                    ELSE {}
            ELSE {}
       ELSE IF IsDict(json) /\ "metadata" \notin DOMAIN json
       THEN {json[k] : k \in {k \in {"text", "transcription", "content"} :
                                 /\ k \in DOMAIN json
                                 /\ k = "transcription"
                                       => "text" \notin DOMAIN json
                                 /\ k = "content"
                                       => DOMAIN json
                                            \cap {"text", "transcription"}
                                               = {}}}
       ELSE {}

NotJson(body) == IsStr(body) /\ ~json_loads(body.str).ok

\* C22: a backend configured for structured output that answers a body
\* that is not JSON returns a result, not an error: its text is the raw
\* body and its metadata is empty. This holds for the OpenAI backend, the
\* Vertex backend and the secondary parse of the custom endpoint.
C22_NonJsonBodyIsPlainText ==
    Answered /\ Structured =>
       \A body \in Bodies :
          NotJson(body) =>
             /\ ~call.result.raised
             /\ call.result.text = body
             /\ DOMAIN call.result.metadata = {}

\* a structured call whose body starts like an object and is not JSON
C22_Witness ==
    /\ Answered
    /\ Structured
    /\ \E body \in Bodies : NotJson(body) /\ StartsWithBrace(body.str)
    /\ call.kwargs.api_endpoint = "openai"

\* the value of the first of the fields text, transcription, content that
\* the object has
FirstTextField(json) ==
    IF "text" \in DOMAIN json THEN json["text"]
    ELSE IF "transcription" \in DOMAIN json THEN json["transcription"]
    ELSE json["content"]

\* the text the claim names for an accepted body; where the secondary parse
\* finds an object with text and metadata in the field, the text of it
ExpectedText(json, expected_metadata) ==
    IF ~IsDict(json) THEN json
    ELSE LET field == FirstTextField(json)
         IN IF /\ "metadata" \notin DOMAIN json
               /\ expected_metadata # <<>>
               /\ IsStr(field)
               /\ StartsWithBrace(field.str)
               /\ json_loads(field.str).ok
               /\ {"text", "metadata"} \subseteq DOMAIN json_loads(field.str).value
            THEN json_loads(field.str).value["text"]
            ELSE field

ExpectedConfidence(json) ==
    IF IsDict(json) /\ "confidence" \in DOMAIN json THEN json["confidence"]
    ELSE IF IsDict(json) /\ "score" \in DOMAIN json THEN json["score"]
    ELSE JsonNull

\* an object with any of text, transcription, content, or a bare string
AcceptedBody(json) ==
    IF IsDict(json)
    THEN DOMAIN json \cap {"text", "transcription", "content"} # {}
    ELSE IsStr(json)

\* C23: for every 200 answer of the custom endpoint that is an object with
\* text and metadata, an object with any of text, transcription or content,
\* or a bare string whatever its content, the adapter returns a result, not
\* an error: the text is the first of text, transcription, content, else the
\* whole bare string, and the confidence is the confidence field, else the
\* score field, else absent.
C23_CustomEndpointResult ==
    /\ Answered
    /\ call.kwargs.api_endpoint \notin {"openai", "vertex"}
    /\ AcceptedBody(call.response.json)
    => /\ ~call.result.raised
       /\ call.result.text
             = ExpectedText(call.response.json, call.kwargs.expected_metadata)
       /\ call.result.confidence = ExpectedConfidence(call.response.json)

\* C24: when a transcribe-annotation call is over, the region file it saved
\* no longer exists, after a result of the backend and after the backend
\* raised, for each of the three backends.
C24_RegionFileRemoved ==
    /\ call.op \in {"OCRService.transcribe_annotation",
                    "TranscribeAnnotationView.post"}
    /\ call.done
    => call.region_image_path \notin tmpfiles /\ temp_path \notin tmpfiles

\* a call that saved the region and whose backend raised
C24_Witness ==
    /\ call.op = "OCRService.transcribe_annotation"
    /\ call.done
    /\ call.region_image_path = temp_path
    /\ call.result.raised
    /\ call.result.error = "Exception"

\* C30: a transcribe request that names the vertex backend and carries an
\* access token, a project id and a location passes the validation and is
\* dispatched with them: it does not end failed for missing credentials.
C30_VertexCredentialsDispatched ==
    /\ call.op = "TranscribeAnnotationView.post"
    /\ call.done
    /\ call.args.api_endpoint = "vertex"
    /\ Truthy(call.args.vertex_access_token)
    /\ Truthy(call.args.vertex_project_id)
    /\ Truthy(call.args.vertex_location)
    /\ call.annotation_type \in {"bbox", "polygon"}
    => /\ call.result.status # "400"
       /\ ~(/\ call.result.status = "failed"
            /\ call.result.error_message = "ValueError")

(***************************************************************************)
(* Properties of the version history                                       *)
(***************************************************************************)
\* C26: in every reachable state the parent_transcription references form
\* no cycle, and every record that has a parent has a version strictly
\* greater than its parent's and was created after its parent.
C26_ParentChainOrdered ==
    \A i \in Rows :
       LET parent == db[i].parent_transcription
       IN parent # NoId =>
             /\ parent \notin Cascade(db, {i})
             /\ db[parent] # NoRow => db[i].version > db[parent].version
             /\ i > parent

\* a transcribe request that has created its record and has not returned
InRequest(p) ==
    /\ handler[p] \in {"transcribe_image", "transcribe_annotation"}
    /\ pc[p] \in {"ocr", "done_clear", "done_write", "fail_clear",
                  "fail_write", "merge"}

\* from its creation on, the record of the request is the one current
\* record of its target
RequestRecordCurrent ==
    \A p \in Procs :
       InRequest(p) => CurrentOf(db, Target(inst[p])) = {inst[p].id}

\* the request of p returns and leaves its record failed
EndsFailed(p) ==
    /\ InRequest(p)
    /\ pc'[p] = "idle"
    /\ db'[inst[p].id].status = "failed"

\* C27: from the moment a transcribe request creates its processing record,
\* that record is the current one of the target and the record that was
\* current before is not; when the request ends failed, the failed record,
\* with empty text, stays the current one, so the last completed
\* transcription is not current again.
C27_FailedRecordStaysCurrent ==
    /\ []RequestRecordCurrent
    /\ [][\A p \in Procs :
             EndsFailed(p) =>
                /\ CurrentOf(db', Target(inst[p])) = {inst[p].id}
                /\ db'[inst[p].id].text_content = <<>>]_vars

\* C27 as amended: the failed record stays the current one; its text is
\* empty when the request failed before its completed save, and the text of
\* the result when it failed after it
C27_FailedRecordStaysCurrentWithItsText ==
    /\ []RequestRecordCurrent
    /\ [][\A p \in Procs :
             EndsFailed(p) =>
                /\ CurrentOf(db', Target(inst[p])) = {inst[p].id}
                /\ db'[inst[p].id].text_content
                      = IF db[inst[p].id].status = "processing" THEN <<>>
                        ELSE db[inst[p].id].text_content]_vars

\* a failed record is current while an older completed record of its target
\* is not
C27_Witness ==
    /\ AllIdle
    /\ \E i, j \in Rows :
          /\ j < i
          /\ Target(db[i]) = Target(db[j])
          /\ db[j].status = "completed" /\ ~db[j].is_current
          /\ db[i].status = "failed" /\ db[i].is_current
          /\ db[i].text_content = <<>>

\* the parent_transcription chain of row j reaches row i
RECURSIVE ChainReaches(_, _, _)
ChainReaches(d, j, i) ==
    \/ j = i
    \/ /\ d[j].parent_transcription # NoId
       /\ d[d[j].parent_transcription] # NoRow
       /\ ChainReaches(d, d[j].parent_transcription, i)

\* C28: deleting a Transcription deletes with it every record whose
\* parent_transcription chain reaches it, the current record of the target
\* included when it is one of them; the other records are left as they are
\* and keep their is_current.
C28_DeleteCascades ==
    [][(\E i \in Rows : db'[i] = NoRow) =>
          \E i \in Rows :
             \A j \in Rows :
                IF ChainReaches(db, j, i) THEN db'[j] = NoRow
                ELSE db'[j] = db[j]]_vars

\* a record and the current record reverted from it were deleted, and the
\* record left on the target is not current
C28_Witness ==
    /\ AllIdle
    /\ nextId = 3
    /\ Rows = {1}
    /\ ~db[1].is_current
    /\ CurrentOf(db, Target(db[1])) = {}

(***************************************************************************)
(* Properties of the bundle export                                         *)
(***************************************************************************)
Exported ==
    call.op = "export_projects_vlamy" /\ call.stage \in {"exported", "imported"}

\* the files written for image i of project p that are still there
FilesOf(p, i, sub) ==
    {f \in call.bundle : f.writer = <<p, i>> /\ f.sub = sub}

\* no two projects of the export have the same directory
OwnDirectories ==
    \A p, q \in 1..Len(call.args) :
       p # q => ProjectDir(call.args, p) # ProjectDir(call.args, q)

\* C25: in a bundle export every image has its own image file at the top of
\* its project's directory and its own PageXML file under page/ with the
\* same base name; whatever the file names of the images (duplicates, names
\* that differ only in the extension), no two images share a PageXML file
\* and none is overwritten.
C25_OwnPageXmlPerImage ==
    Exported /\ OwnDirectories =>
       \A p \in 1..Len(call.args) :
          \A i \in 1..Len(call.args[p].images) :
             /\ Cardinality(FilesOf(p, i, "")) = 1
             /\ Cardinality(FilesOf(p, i, "page")) = 1
             /\ \A f \in FilesOf(p, i, "") :
                   /\ f.dir = ProjectDir(call.args, p)
                   /\ \A g \in FilesOf(p, i, "page") :
                         /\ g.dir = f.dir
                         /\ splitext(g.name).root = splitext(f.name).root

\* C29: in one bundle export of n distinct projects every project has its
\* own directory, with its own metadata.json and its own images only,
\* whatever the names of the projects (names that differ only in characters
\* the sanitizer replaces, or only after the 100th character), so that the
\* import of the bundle creates n projects.
C29_OwnDirectoryPerProject ==
    /\ Exported
    /\ \A p, q \in 1..Len(call.args) :
          p # q => call.args[p].name # call.args[q].name
    => /\ OwnDirectories
       /\ \A p \in 1..Len(call.args) :
             /\ \E f \in call.bundle : /\ f.dir = ProjectDir(call.args, p)
                                       /\ f.name = MetadataJson
                                       /\ f.writer = <<p, 0>>
             /\ \A f \in call.bundle :
                   f.dir = ProjectDir(call.args, p) => f.writer[1] = p
       /\ call.done => Len(call.result) = Len(call.args)
====
